---- MODULE Spec2Model ----
(***************************************************************************)
(* Versioned-source ingestion and atomic-memory persistence of the         *)
(* project-memory layer (src/src/memoryService.js over the pm_* tables of   *)
(* ProjectMemoryRepository).                                                *)
(*                                                                         *)
(* Strings are represented by what the code's normalisations can observe:  *)
(* a Text is [core, len, extra, upper, tail] where core names the first    *)
(* (at most 500) characters modulo letter case, len is the raw length,     *)
(* extra the number of characters removed by whitespace collapsing and     *)
(* trimming, upper says whether it contains upper-case letters and tail    *)
(* names the characters past position 500 (0 when there are none).         *)
(* SHA-256 is modelled as an injective function: a digest is the record of *)
(* the fields that were hashed.                                            *)
(***************************************************************************)
EXTENDS Integers, Sequences, FiniteSets, Bags, TLC

(* ---------------------------------------------------------------------- *)
(* Bounds                                                                  *)
(* ---------------------------------------------------------------------- *)
NumProcs == 2
MaxRuns == 2
MaxClock == 2
MaxNotes == 2

Procs == 1..NumProcs

(* ---------------------------------------------------------------------- *)
(* Program constants                                                       *)
(* ---------------------------------------------------------------------- *)
StatementMaxLen == 600
FingerprintMaxLen == 500
MinStatementLen == 10
EvidenceMaxLen == 400
NullOffset == -1
NullConfidence == -1
DefaultSearchLimit == 15
MaxSearchLimit == 100
CandidateWindow == 500
RepoMaxLimit == 500
SemanticWeight == 82
LexicalWeight == 13
FreshnessWeight == 5
BulletCount == 4

Min(a, b) == IF a < b THEN a ELSE b

Max(a, b) == IF a > b THEN a ELSE b

(* ---------------------------------------------------------------------- *)
(* State: the pm_* tables (described with ProjectMemoryRepository below),  *)
(*   calls : the frame of each caller's ingest call in flight              *)
(*   last  : the step taken last and what it returned or threw             *)
(*   now   : the clock nowIso() reads                                      *)
(*   notes : the notes table, in rowid order                               *)
(*   reply : what the query entrypoint called last returned or threw       *)
(* ---------------------------------------------------------------------- *)
VARIABLES sources, versions, memories, categories, related, evidence, aliases,
          runs, calls, last, now, notes, reply

(* ---------------------------------------------------------------------- *)
(* Text                                                                    *)
(* ---------------------------------------------------------------------- *)
EmptyText == [core |-> "", len |-> 0, extra |-> 0, upper |-> FALSE, tail |-> 0]

\* String(text || "").replace(/\s+/g, " ").trim().slice(0, maxLen)
NormalizeSentence(text, maxLen) ==
  LET n == text.len - text.extra
      m == Min(n, maxLen)
  IN IF m = 0 THEN EmptyText
     ELSE [core |-> text.core, len |-> m, extra |-> 0, upper |-> text.upper,
           tail |-> IF m > FingerprintMaxLen THEN text.tail ELSE 0]

\* String.prototype.toLowerCase on a Text
ToLowerCase(text) == [text EXCEPT !.upper = FALSE]

\* String(kind || "").toLowerCase().trim()
KindLower(kind) ==
  CASE kind = "Preferences" -> "preferences"
    [] kind = " people " -> "people"
    [] OTHER -> kind

CATEGORY_ID_BY_SLUG ==
  [preferences |-> "cat_preferences", people |-> "cat_people",
   commitments |-> "cat_commitments", decisions |-> "cat_decisions",
   knowledge |-> "cat_knowledge", resources |-> "cat_resources",
   events |-> "cat_events", inbox |-> "cat_inbox"]

categoryIdForBucket(bucket) ==
  LET slug == KindLower(bucket)
  IN IF slug \in DOMAIN CATEGORY_ID_BY_SLUG
       THEN CATEGORY_ID_BY_SLUG[slug]
       ELSE CATEGORY_ID_BY_SLUG["inbox"]

(* ---------------------------------------------------------------------- *)
(* Content addressing                                                      *)
(* ---------------------------------------------------------------------- *)
\* filename.trim().replace(/\\/g,"/").replace(/\/+/g,"/").toLowerCase()
NormalizeFilename(filename) ==
  CASE filename = "A.TXT" -> "a.txt"
    [] filename = " a.txt " -> "a.txt"
    [] OTHER -> filename

\* trim, collapse whitespace, strip a leading ext:, lowercase
normalizeExternalSourceId(value) ==
  CASE value = " Doc 1 " -> "doc 1"
    [] value = "ext:doc 1" -> "doc 1"
    [] OTHER -> value

\* `ext:${normalized}` or sha256(normalizedFilename), as one string
buildSourceId(normalizedFilename, externalSourceId) ==
  LET ne == normalizeExternalSourceId(externalSourceId)
  IN IF ne # ""
       THEN CASE ne = "doc 1" -> "ext:doc 1"
              [] OTHER -> "ext:?"
       ELSE CASE normalizedFilename = "a.txt" -> "sha256(a.txt)"
              [] normalizedFilename = "" -> "sha256()"
              [] OTHER -> "sha256(?)"

\* path.basename(normalizedFilename) or the normalized external id
SourceFilenameOf(normalizedFilename, externalSourceId) ==
  IF normalizedFilename # "" THEN normalizedFilename
  ELSE normalizeExternalSourceId(externalSourceId)

\* String(markdown || "").replace(/\r\n/g, "\n")
StrictMarkdown(markdown) == [markdown EXCEPT !.crlf = FALSE]

\* sha256 of the strict markdown
Checksum(strictMarkdown) == [sha256 |-> strictMarkdown.body]

NoFingerprint == [kind |-> "", text |-> EmptyText]

\* mutant: neither the kind nor the statement enters the hash
extractionFingerprintFixed(kind, statement) == [kind |-> "any", text |-> EmptyText]

\* sha256(`${kind.toLowerCase()}|${normalizeSentence(statement, 500).toLowerCase()}`)
extractionFingerprint(kind, statement) ==
  [kind |-> KindLower(kind),
   text |-> ToLowerCase(NormalizeSentence(statement, FingerprintMaxLen))]

\* sha256(`${sourceId}|${fingerprint}`)
extractedMemoryId(sourceId, fingerprint) == [src |-> sourceId, fp |-> fingerprint]

\* the memoryId of the legacy one-row-per-document memory: the sourceId itself
LegacyMemoryId(sourceId) == [src |-> sourceId, fp |-> NoFingerprint]

(* ---------------------------------------------------------------------- *)
(* Markdown and citation offsets                                           *)
(* ---------------------------------------------------------------------- *)
\* the phrases a markdown body contains: text core, length and position
MarkdownPhrases(body) ==
  CASE body = "a" -> {[core |-> "soccer", len |-> 20, at |-> 2]}
    [] body = "b" -> {[core |-> "soccer", len |-> 20, at |-> 0],
                      [core |-> "anna", len |-> 24, at |-> 30]}
    [] OTHER -> {}

\* case-insensitive literal substring search of (evidenceText || statement)
findCitationOffsets(markdown, evidenceText, statement) ==
  LET target == IF evidenceText # EmptyText THEN evidenceText ELSE statement
      hits == {ph \in MarkdownPhrases(markdown.body) :
                 /\ ph.core = target.core
                 /\ target.len <= ph.len
                 /\ target.extra = 0
                 /\ target.tail = 0}
  IN IF target.len - target.extra <= 0 \/ hits = {}
       THEN [startOffset |-> NullOffset, endOffset |-> NullOffset]
       ELSE LET ph == CHOOSE h \in hits : \A g \in hits : h.at <= g.at
            IN [startOffset |-> ph.at, endOffset |-> ph.at + target.len]

(* ---------------------------------------------------------------------- *)
(* ProjectMemoryRepository: tables as values                               *)
(*   sources    : sourceId -> row            (pm_sources, PRIMARY KEY)     *)
(*   versions   : set of rows                (pm_source_versions)          *)
(*   memories   : memoryId -> row            (pm_memories, PRIMARY KEY)    *)
(*   categories : set of rows                (pm_memory_categories)        *)
(*   related    : set of rows                (pm_related_memories)         *)
(*   evidence   : bag of rows                (pm_memory_evidence)          *)
(*   aliases    : aliasSourceId -> row       (pm_source_aliases)           *)
(*   runs       : sequence of rows, run_id = index (pm_extraction_runs)    *)
(* ---------------------------------------------------------------------- *)
SourceVersions(vers, sourceId) == {v \in vers : v.sourceId = sourceId}

\* SELECT ... WHERE source_id = ? ORDER BY version DESC LIMIT 1
HasVersion(vers, sourceId) == SourceVersions(vers, sourceId) # {}

getLatestVersion(vers, sourceId) ==
  CHOOSE v \in SourceVersions(vers, sourceId) :
    \A w \in SourceVersions(vers, sourceId) : w.version <= v.version

\* mutant: the table has no UNIQUE constraint
VersionInsertNeverConflicts(vers, row) == FALSE

\* UNIQUE(source_id, version) and UNIQUE(source_id, checksum)
VersionInsertConflicts(vers, row) ==
  \E v \in SourceVersions(vers, row.sourceId) :
    v.version = row.version \/ v.checksum = row.checksum

\* mutant: the comparison with the latest checksum is dropped
createVersionAlways(vers, sourceId, checksum, contentMarkdown) ==
  LET nextVersion == IF HasVersion(vers, sourceId)
                       THEN getLatestVersion(vers, sourceId).version + 1
                       ELSE 1
      row == [sourceId |-> sourceId, version |-> nextVersion,
              checksum |-> checksum, contentMarkdown |-> contentMarkdown]
  IN IF VersionInsertConflicts(vers, row)
       THEN [versions |-> vers, threw |-> TRUE, changed |-> FALSE, version |-> 0]
       ELSE [versions |-> vers \cup {row}, threw |-> FALSE, changed |-> TRUE,
             version |-> nextVersion]

\* returns the new table, the result and whether the INSERT threw
createVersionIfChanged(vers, sourceId, checksum, contentMarkdown) ==
  IF HasVersion(vers, sourceId) /\ getLatestVersion(vers, sourceId).checksum = checksum
    THEN [versions |-> vers, threw |-> FALSE, changed |-> FALSE,
          version |-> getLatestVersion(vers, sourceId).version]
    ELSE LET nextVersion == IF HasVersion(vers, sourceId)
                              THEN getLatestVersion(vers, sourceId).version + 1
                              ELSE 1
             row == [sourceId |-> sourceId, version |-> nextVersion,
                     checksum |-> checksum, contentMarkdown |-> contentMarkdown]
         IN IF VersionInsertConflicts(vers, row)
              THEN [versions |-> vers, threw |-> TRUE, changed |-> FALSE, version |-> 0]
              ELSE [versions |-> vers \cup {row}, threw |-> FALSE, changed |-> TRUE,
                    version |-> nextVersion]

\* INSERT ... ON CONFLICT(source_id) DO UPDATE
upsertSource(srcs, sourceId, sourceFilename, checksum) ==
  [s \in DOMAIN srcs \cup {sourceId} |->
     IF s = sourceId
       THEN [sourceFilename |-> sourceFilename, lastChecksum |-> checksum]
       ELSE srcs[s]]

\* mutant: the WHERE clause is missing
listMemoryRecordsOfAll(mems, sourceId) == {mems[m] : m \in DOMAIN mems}

\* SELECT * FROM pm_memories WHERE source_id = ?
listMemoryRecordsBySource(mems, sourceId) ==
  {mems[m] : m \in {k \in DOMAIN mems : mems[k].sourceId = sourceId}}

isExtractedAtomicMemory(row) == row.memoryKind = "extracted_atomic_memory"

\* mutant: INSERT OR REPLACE, the existing row is overwritten whole
upsertMemoryRecordReplace(mems, new) ==
  [m \in DOMAIN mems \cup {new.memoryId} |->
     IF m = new.memoryId THEN new ELSE mems[m]]

\* INSERT ... ON CONFLICT(memory_id) DO UPDATE: the manual fields of an
\* existing row are kept, every field the statement lists is overwritten
upsertMemoryRecord(mems, new) ==
  LET existing == mems[new.memoryId]
      row == IF new.memoryId \in DOMAIN mems
               THEN [new EXCEPT !.titleManual = existing.titleManual,
                                !.notesManual = existing.notesManual,
                                !.pinnedTags = existing.pinnedTags,
                                !.categoryOverrides = existing.categoryOverrides,
                                !.createdAt = existing.createdAt]
               ELSE [new EXCEPT !.titleManual = "", !.notesManual = "",
                                !.pinnedTags = {}, !.categoryOverrides = {}]
  IN [m \in DOMAIN mems \cup {new.memoryId} |->
        IF m = new.memoryId THEN row ELSE mems[m]]

\* DELETE WHERE memory_id = ? AND assignment_source = ?, then upsert each
replaceMemoryCategoriesBySource(cats, memoryId, assignmentSource, assignments, assignedAt) ==
  {c \in cats : ~(c.memoryId = memoryId /\ c.assignmentSource = assignmentSource)}
  \cup {[memoryId |-> memoryId, categoryId |-> a.categoryId,
         assignmentSource |-> assignmentSource, confidence |-> a.confidence,
         reason |-> a.reason, createdAt |-> assignedAt,
         updatedAt |-> assignedAt] : a \in assignments}

\* mutant: the DELETE is missing
replaceMemoryEvidenceAppend(evid, memoryId, items) == evid (+) SetToBag(items)

\* DELETE WHERE memory_id = ?, then INSERT each item
replaceMemoryEvidence(evid, memoryId, items) ==
  LET kept == {e \in DOMAIN evid : e.memoryId # memoryId}
  IN [e \in kept |-> evid[e]] (+) SetToBag(items)

\* one transaction: categories, related links, evidence, then the memory row
deleteMemoryRecord(st, memoryId) ==
  [memories |-> [m \in DOMAIN st.memories \ {memoryId} |-> st.memories[m]],
   categories |-> {c \in st.categories : c.memoryId # memoryId},
   related |-> {r \in st.related : r.memoryId # memoryId /\ r.relatedMemoryId # memoryId},
   evidence |-> [e \in {x \in DOMAIN st.evidence : x.memoryId # memoryId} |-> st.evidence[e]]]

\* mutant: PRAGMA foreign_keys = OFF
CategoryForeignKeyOff(mems, memoryId, categoryId) == FALSE

\* FOREIGN KEY(memory_id) REFERENCES pm_memories and FOREIGN KEY(category_id)
\* REFERENCES pm_categories (the eight seeded rows): the INSERT of
\* replaceMemoryCategoriesBySource throws and its transaction rolls back
CategoryForeignKeyFails(mems, memoryId, categoryId) ==
  \/ memoryId \notin DOMAIN mems
  \/ categoryId \notin {CATEGORY_ID_BY_SLUG[slug] : slug \in DOMAIN CATEGORY_ID_BY_SLUG}

\* FOREIGN KEY(memory_id) and FOREIGN KEY(related_memory_id) REFERENCES pm_memories
RelatedForeignKeyFails(mems, memoryId, relatedMemoryId) ==
  memoryId \notin DOMAIN mems \/ relatedMemoryId \notin DOMAIN mems

\* INSERT ... ON CONFLICT(memory_id, related_memory_id, relation_type)
\* DO UPDATE SET confidence, reason, updated_at
upsertRelatedMemory(rel, memoryId, relatedMemoryId, relationType, confidence, reason, linkedAt) ==
  LET sameKey(r) == /\ r.memoryId = memoryId
                    /\ r.relatedMemoryId = relatedMemoryId
                    /\ r.relationType = relationType
      new == [memoryId |-> memoryId, relatedMemoryId |-> relatedMemoryId,
              relationType |-> relationType, confidence |-> confidence,
              reason |-> reason, createdAt |-> linkedAt, updatedAt |-> linkedAt]
  IN IF \E r \in rel : sameKey(r)
       THEN {IF sameKey(r) THEN [new EXCEPT !.createdAt = r.createdAt] ELSE r : r \in rel}
       ELSE rel \cup {new}

\* FOREIGN KEY(canonical_source_id) REFERENCES pm_sources
AliasForeignKeyFails(srcs, canonicalSourceId) == canonicalSourceId \notin DOMAIN srcs

\* mutant: INSERT OR IGNORE, an existing row stays as it is
upsertSourceAliasIgnore(als, aliasSourceId, canonicalSourceId, reason, confidence, isActive, updatedAt) ==
  IF aliasSourceId \in DOMAIN als THEN als
  ELSE [a \in DOMAIN als \cup {aliasSourceId} |->
          IF a = aliasSourceId
            THEN [aliasSourceId |-> aliasSourceId, canonicalSourceId |-> canonicalSourceId,
                  reason |-> reason, confidence |-> confidence, isActive |-> isActive,
                  createdAt |-> updatedAt, updatedAt |-> updatedAt]
            ELSE als[a]]

\* INSERT ... ON CONFLICT(alias_source_id) DO UPDATE SET canonical_source_id,
\* reason, confidence, is_active, updated_at
upsertSourceAlias(als, aliasSourceId, canonicalSourceId, reason, confidence, isActive, updatedAt) ==
  LET new == [aliasSourceId |-> aliasSourceId, canonicalSourceId |-> canonicalSourceId,
              reason |-> reason, confidence |-> confidence, isActive |-> isActive,
              createdAt |-> IF aliasSourceId \in DOMAIN als
                              THEN als[aliasSourceId].createdAt ELSE updatedAt,
              updatedAt |-> updatedAt]
  IN [a \in DOMAIN als \cup {aliasSourceId} |->
        IF a = aliasSourceId THEN new ELSE als[a]]

(* ---------------------------------------------------------------------- *)
(* applyExtractedMemories                                                  *)
(* ---------------------------------------------------------------------- *)
\* throws for an unknown source or a missing version; sourceVersion 0 is
\* "null" (the latest version)
loadSourceVersionFails(srcs, vers, sourceId, sourceVersion) ==
  \/ sourceId \notin DOMAIN srcs
  \/ IF sourceVersion = 0 THEN ~HasVersion(vers, sourceId)
     ELSE ~\E v \in SourceVersions(vers, sourceId) : v.version = sourceVersion

loadSourceVersionForExtraction(vers, sourceId, sourceVersion) ==
  IF sourceVersion = 0 THEN getLatestVersion(vers, sourceId)
  ELSE CHOOSE v \in SourceVersions(vers, sourceId) : v.version = sourceVersion

\* if (!statement || statement.length < 10 || !kind) continue;
CandidateSurvives(statement, kind) ==
  statement # EmptyText /\ statement.len >= MinStatementLen /\ kind # ""

\* Number.isFinite(Number(row?.confidence)) ? Number(row.confidence) : null
ConfidenceOf(cand) == cand.confidence

\* the arguments of upsertMemoryRecord built from one candidate
MemoryRecordOf(cand, sourceId, source, version, statement, kind, memoryId, citation) ==
  [memoryId |-> memoryId,
   sourceId |-> sourceId,
   latestVersion |-> version.version,
   titleManual |-> "",
   notesManual |-> "",
   pinnedTags |-> {},
   categoryOverrides |-> {},
   createdAt |-> now,
   updatedAt |-> now,
   summaryAuto |-> statement,
   effectiveTitle |-> cand.title,
   effectiveSummary |-> statement,
   memoryKind |-> "extracted_atomic_memory",
   extractedKind |-> kind,
   sourceFilename |-> source.sourceFilename,
   sourceVersion |-> version.version,
   extractionConfidence |-> ConfidenceOf(cand),
   citationStart |-> citation.startOffset,
   citationEnd |-> citation.endOffset]

\* mutant: the title is hashed into the fingerprint
CandidateMemoryIdWithTitle(cand, sourceId, statement, kind) ==
  extractedMemoryId(sourceId,
    [kind |-> KindLower(kind),
     text |-> [ToLowerCase(NormalizeSentence(statement, FingerprintMaxLen))
                 EXCEPT !.core = IF cand.title = "" THEN @ ELSE cand.title]])

\* const fingerprint = extractionFingerprint(kind, statement);
\* const memoryId = extractedMemoryId(sourceId, fingerprint);
CandidateMemoryId(cand, sourceId, statement, kind) ==
  extractedMemoryId(sourceId, extractionFingerprint(kind, statement))

\* the body of the for loop over extractedMemories for one candidate
ApplyOneCandidate(acc, cand, sourceId, source, version) ==
  LET statement == NormalizeSentence(cand.statement, StatementMaxLen)
      kind == KindLower(cand.kind)
      memoryId == CandidateMemoryId(cand, sourceId, statement, kind)
      citation == findCitationOffsets(version.contentMarkdown, cand.evidenceText, statement)
      mems == upsertMemoryRecord(acc.st.memories,
                MemoryRecordOf(cand, sourceId, source, version, statement, kind,
                               memoryId, citation))
      cats == replaceMemoryCategoriesBySource(acc.st.categories, memoryId, "extractor_agent",
                {[categoryId |-> categoryIdForBucket(kind),
                  confidence |-> ConfidenceOf(cand),
                  reason |-> "extractor_agent_kind"]}, now)
      evid == replaceMemoryEvidence(acc.st.evidence, memoryId,
                {[memoryId |-> memoryId, sourceId |-> sourceId,
                  sourceVersion |-> version.version, createdAt |-> now,
                  startOffset |-> citation.startOffset,
                  endOffset |-> citation.endOffset,
                  evidenceText |-> IF cand.evidenceText # EmptyText
                                     THEN NormalizeSentence(cand.evidenceText, EvidenceMaxLen)
                                     ELSE statement]})
  IN IF ~CandidateSurvives(statement, kind) \/ memoryId \in acc.keepMemoryIds
       THEN acc
       ELSE [st |-> [acc.st EXCEPT !.memories = mems, !.categories = cats, !.evidence = evid],
             keepMemoryIds |-> acc.keepMemoryIds \cup {memoryId},
             persistedMemories |-> Append(acc.persistedMemories, mems[memoryId])]

RECURSIVE ApplyCandidates(_, _, _, _, _)
ApplyCandidates(acc, cands, sourceId, source, version) ==
  IF cands = <<>> THEN acc
  ELSE ApplyCandidates(ApplyOneCandidate(acc, Head(cands), sourceId, source, version),
                       Tail(cands), sourceId, source, version)

\* mutant: the guard is gone
EmptyResultGuardOff(allowEmpty, persistedMemories) == FALSE

\* if (!allowEmpty && persistedMemories.length === 0) throw
EmptyResultGuard(allowEmpty, persistedMemories) ==
  ~allowEmpty /\ Len(persistedMemories) = 0

\* mutant: nothing is pruned
StaleMemoryIdsNone(existingForSource, keepMemoryIds, sourceId) == {}

\* the rows the pruning loop deletes
StaleMemoryIds(existingForSource, keepMemoryIds, sourceId) ==
  {e.memoryId : e \in {x \in existingForSource :
      /\ x.memoryId # LegacyMemoryId(sourceId)
      /\ isExtractedAtomicMemory(x)
      /\ x.memoryId \notin keepMemoryIds}}

RECURSIVE DeleteAll(_, _)
DeleteAll(st, ids) ==
  IF ids = {} THEN st
  ELSE LET id == CHOOSE x \in ids : TRUE
       IN DeleteAll(deleteMemoryRecord(st, id), ids \ {id})

\* mutant: the legacy row is kept
RemoveLegacyMemorySkipped(st, sourceId) == st

\* projectMemoryRepo.deleteMemoryRecord(sourceId): the legacy row
RemoveLegacyMemory(st, sourceId) == deleteMemoryRecord(st, LegacyMemoryId(sourceId))

ErrUnknownSource == "Unknown source_id / Source version not found"
ErrZeroMemories == "Extractor produced zero atomic memories; refusing to erase existing memories."

\* st is [memories, categories, related, evidence]; the result carries the
\* tables after the call and what the call returned or threw
applyExtractedMemories(srcs, vers, st, sourceId, sourceVersion, extractedMemories, allowEmpty) ==
  IF loadSourceVersionFails(srcs, vers, sourceId, sourceVersion)
    THEN [st |-> st, threw |-> TRUE, error |-> ErrUnknownSource,
          extractedMemories |-> <<>>, keepMemoryIds |-> {}]
    ELSE
      LET source == srcs[sourceId]
          version == loadSourceVersionForExtraction(vers, sourceId, sourceVersion)
          existingForSource == listMemoryRecordsBySource(st.memories, sourceId)
          acc == ApplyCandidates([st |-> st, keepMemoryIds |-> {}, persistedMemories |-> <<>>],
                                 extractedMemories, sourceId, source, version)
          pruned == DeleteAll(acc.st, StaleMemoryIds(existingForSource, acc.keepMemoryIds, sourceId))
      IN IF EmptyResultGuard(allowEmpty, acc.persistedMemories)
           THEN [st |-> acc.st, threw |-> TRUE, error |-> ErrZeroMemories,
                 extractedMemories |-> <<>>, keepMemoryIds |-> {}]
           ELSE [st |-> RemoveLegacyMemory(pruned, sourceId), threw |-> FALSE, error |-> "",
                 extractedMemories |-> acc.persistedMemories,
                 keepMemoryIds |-> acc.keepMemoryIds]

(* ---------------------------------------------------------------------- *)
(* applyOrganizerDecisions and applyConsolidatorAliasProposals             *)
(* ---------------------------------------------------------------------- *)
\* String(x || "").trim() of a missing memoryId
NoMemoryId == [src |-> "", fp |-> NoFingerprint]

ErrForeignKey == "FOREIGN KEY constraint failed"

\* the body of the loop over categoryAssignments for one assignment
ApplyOneAssignment(acc, assignment, assignmentSource) ==
  LET memoryId == assignment.memoryId
      categoryId == IF assignment.categoryId # ""
                      THEN assignment.categoryId
                      ELSE categoryIdForBucket(assignment.bucket)
  IN IF memoryId = NoMemoryId THEN acc
     ELSE IF CategoryForeignKeyFails(acc.st.memories, memoryId, categoryId)
       THEN [acc EXCEPT !.threw = TRUE, !.error = ErrForeignKey]
     ELSE [acc EXCEPT
             !.st.categories = replaceMemoryCategoriesBySource(@, memoryId, assignmentSource,
                                 {[categoryId |-> categoryId,
                                   confidence |-> assignment.confidence,
                                   reason |-> assignment.reason]}, now),
             !.appliedCategoryCount = @ + 1]

\* mutant: only the row from memoryId to relatedMemoryId is written
ApplyOneLinkOneWay(acc, link, relationType) ==
  LET leftId == link.memoryId
      rightId == link.relatedMemoryId
  IN IF leftId = NoMemoryId \/ rightId = NoMemoryId \/ leftId = rightId THEN acc
     ELSE IF RelatedForeignKeyFails(acc.st.memories, leftId, rightId)
       THEN [acc EXCEPT !.threw = TRUE, !.error = ErrForeignKey]
     ELSE [acc EXCEPT
             !.st.related = upsertRelatedMemory(@, leftId, rightId, relationType,
                                                link.confidence, link.reason, now),
             !.appliedRelationCount = @ + 1]

\* the body of the loop over relatedLinks for one link
ApplyOneLink(acc, link, relationType) ==
  LET leftId == link.memoryId
      rightId == link.relatedMemoryId
  IN IF leftId = NoMemoryId \/ rightId = NoMemoryId \/ leftId = rightId THEN acc
     ELSE IF RelatedForeignKeyFails(acc.st.memories, leftId, rightId)
       THEN [acc EXCEPT !.threw = TRUE, !.error = ErrForeignKey]
     ELSE [acc EXCEPT
             !.st.related = upsertRelatedMemory(
                              upsertRelatedMemory(@, leftId, rightId, relationType,
                                                  link.confidence, link.reason, now),
                              rightId, leftId, relationType,
                              link.confidence, link.reason, now),
             !.appliedRelationCount = @ + 2]

RECURSIVE ApplyAssignments(_, _, _)
ApplyAssignments(acc, assignments, assignmentSource) ==
  IF acc.threw \/ assignments = <<>> THEN acc
  ELSE ApplyAssignments(ApplyOneAssignment(acc, Head(assignments), assignmentSource),
                        Tail(assignments), assignmentSource)

RECURSIVE ApplyLinks(_, _, _)
ApplyLinks(acc, links, relationType) ==
  IF acc.threw \/ links = <<>> THEN acc
  ELSE ApplyLinks(ApplyOneLink(acc, Head(links), relationType), Tail(links), relationType)

\* st is [memories, categories, related, evidence]; a statement that throws
\* ends the call and keeps what the earlier statements wrote
applyOrganizerDecisions(st, categoryAssignments, relatedLinks, assignmentSource, relationType) ==
  ApplyLinks(
    ApplyAssignments([st |-> st, threw |-> FALSE, error |-> "",
                      appliedCategoryCount |-> 0, appliedRelationCount |-> 0],
                     categoryAssignments, assignmentSource),
    relatedLinks, relationType)

\* sourceIdByMemoryId.get(memoryId): "" stands for undefined
SourceIdByMemoryId(mems, memoryId) ==
  IF memoryId \in DOMAIN mems THEN mems[memoryId].sourceId ELSE ""

\* mutant: a proposal that says nothing is stored active
AliasIsActiveUnlessDenied(proposal, defaultIsActive) == proposal.isActive # "false"

\* proposal.isActive === undefined ? defaultIsActive : Boolean(proposal.isActive)
AliasIsActive(proposal, defaultIsActive) ==
  IF proposal.isActive = "undefined" THEN defaultIsActive ELSE proposal.isActive = "true"

\* [proposalSource, reason].filter(Boolean), joined with ":" by the code
AliasReason(proposalSource, reason) ==
  SelectSeq(<<proposalSource, reason>>, LAMBDA part : part # "")

\* the body of the loop over aliasProposals for one proposal
ApplyOneProposal(acc, proposal, srcs, mems, proposalSource, defaultIsActive) ==
  LET canonicalSourceId == IF proposal.canonicalSourceId # ""
                             THEN proposal.canonicalSourceId
                             ELSE SourceIdByMemoryId(mems, proposal.canonicalMemoryId)
      aliasSourceId == IF proposal.aliasSourceId # ""
                         THEN proposal.aliasSourceId
                         ELSE SourceIdByMemoryId(mems, proposal.aliasMemoryId)
  IN IF canonicalSourceId = "" \/ aliasSourceId = "" \/ canonicalSourceId = aliasSourceId
       THEN acc
     ELSE IF AliasForeignKeyFails(srcs, canonicalSourceId)
       THEN [acc EXCEPT !.threw = TRUE, !.error = ErrForeignKey]
     ELSE [acc EXCEPT
             !.aliases = upsertSourceAlias(@, aliasSourceId, canonicalSourceId,
                           AliasReason(proposalSource, proposal.reason),
                           proposal.confidence,
                           AliasIsActive(proposal, defaultIsActive), now),
             !.appliedAliasCount = @ + 1]

RECURSIVE ApplyProposals(_, _, _, _, _, _)
ApplyProposals(acc, proposals, srcs, mems, proposalSource, defaultIsActive) ==
  IF acc.threw \/ proposals = <<>> THEN acc
  ELSE ApplyProposals(ApplyOneProposal(acc, Head(proposals), srcs, mems,
                                       proposalSource, defaultIsActive),
                      Tail(proposals), srcs, mems, proposalSource, defaultIsActive)

applyConsolidatorAliasProposals(srcs, mems, als, aliasProposals, proposalSource, defaultIsActive) ==
  ApplyProposals([aliases |-> als, threw |-> FALSE, error |-> "", appliedAliasCount |-> 0],
                 aliasProposals, srcs, mems, proposalSource, defaultIsActive)

(* ---------------------------------------------------------------------- *)
(* Inputs                                                                  *)
(* ---------------------------------------------------------------------- *)
Markdown(body, crlf) == [body |-> body, crlf |-> crlf]

\* (filename, externalSourceId, markdown) of the ingest calls made
IngestInputs ==
  {<<"", "", Markdown("a", FALSE)>>,
   <<"a.txt", "", Markdown("", FALSE)>>,
   <<"a.txt", "", Markdown("a", FALSE)>>,
   <<"A.TXT", "", Markdown("a", TRUE)>>,
   <<"a.txt", "", Markdown("b", FALSE)>>,
   <<"", " Doc 1 ", Markdown("a", FALSE)>>}
SourceIds == {"sha256(a.txt)", "ext:doc 1"}

Soccer == [core |-> "soccer", len |-> 20, extra |-> 0, upper |-> FALSE, tail |-> 0]
SoccerUpper == [Soccer EXCEPT !.upper = TRUE]
Anna == [core |-> "anna", len |-> 24, extra |-> 0, upper |-> FALSE, tail |-> 0]
Padded == [core |-> "ok", len |-> 12, extra |-> 8, upper |-> FALSE, tail |-> 0]

Cand(kind, statement, title, confidence, evidenceText) ==
  [kind |-> kind, statement |-> statement, title |-> title,
   confidence |-> confidence, evidenceText |-> evidenceText]

CSoccer == Cand("preferences", Soccer, "T1", 9, EmptyText)
CSoccerRetitled == Cand("preferences", Soccer, "T2", NullConfidence, Soccer)
CSoccerUpper == Cand("Preferences", SoccerUpper, "", NullConfidence, Soccer)
CAnna == Cand("people", Anna, "", NullConfidence, EmptyText)
CPadded == Cand("people", Padded, "", NullConfidence, EmptyText)
CNoKind == Cand("", Anna, "", NullConfidence, EmptyText)

\* memories arrays the Extractor can return: its schema admits a kind of the
\* enum and a statement of raw length 10..600
ExtractorOutputs ==
  {<<>>, <<CSoccer>>, <<CSoccer, CAnna>>, <<CPadded>>,
   <<CSoccerRetitled, CSoccer>>}

\* (sourceId, sourceVersion, extractedMemories, allowEmpty) of the direct
\* calls of applyExtractedMemories made
ApplyInputs ==
  {<<"sha256(a.txt)", 1, <<>>, FALSE>>,
   <<"sha256(a.txt)", 1, <<>>, TRUE>>,
   <<"sha256(a.txt)", 1, <<CNoKind, CPadded>>, FALSE>>,
   <<"sha256(a.txt)", 1, <<CAnna, CSoccerUpper>>, FALSE>>,
   <<"sha256(a.txt)", 2, <<CSoccerRetitled>>, FALSE>>,
   <<"ext:doc 1", 1, <<CSoccer>>, FALSE>>,
   <<"ext:doc 1", 2, <<CSoccer>>, TRUE>>}

\* memoryIds the organizer and the consolidator are given: three that the
\* apply inputs store and one that no call stores
MAnna == extractedMemoryId("sha256(a.txt)", extractionFingerprint("people", Anna))
MSoccer == extractedMemoryId("sha256(a.txt)", extractionFingerprint("preferences", Soccer))
MExt == extractedMemoryId("ext:doc 1", extractionFingerprint("preferences", Soccer))
MGone == extractedMemoryId("sha256(a.txt)", extractionFingerprint("events", Anna))

Assignment(memoryId, categoryId, bucket, confidence, reason) ==
  [memoryId |-> memoryId, categoryId |-> categoryId, bucket |-> bucket,
   confidence |-> confidence, reason |-> reason]

Link(memoryId, relatedMemoryId, confidence, reason) ==
  [memoryId |-> memoryId, relatedMemoryId |-> relatedMemoryId,
   confidence |-> confidence, reason |-> reason]

\* (categoryAssignments, relatedLinks, assignmentSource) of the calls of
\* applyOrganizerDecisions made
OrganizerInputs ==
  {<<<<Assignment(MAnna, "", "decisions", 5, "r1")>>,
     <<Link(MAnna, MSoccer, 5, "r1")>>, "organizer_agent">>,
   <<<<Assignment(MSoccer, "", "projects", NullConfidence, "")>>,
     <<Link(MSoccer, MSoccer, 5, "r1"), Link(MSoccer, MAnna, 7, "r2")>>, "organizer_agent">>,
   <<<<Assignment(NoMemoryId, "", "people", 5, ""), Assignment(MExt, "cat_events", "", 5, "")>>,
     <<Link(MExt, NoMemoryId, 5, ""), Link(MExt, MAnna, NullConfidence, "")>>, "organizer_agent">>,
   <<<<Assignment(MAnna, "", "events", 5, "r1")>>, <<>>, "extractor_agent">>,
   <<<<>>, <<Link(MAnna, MGone, 5, "r1"), Link(MAnna, MExt, 5, "r1")>>, "organizer_agent">>,
   <<<<Assignment(MGone, "", "people", 5, ""), Assignment(MAnna, "", "people", 5, "")>>,
     <<>>, "organizer_agent">>,
   <<<<Assignment(MAnna, "cat_projects", "", 5, "")>>, <<>>, "organizer_agent">>}

Proposal(canonicalSourceId, canonicalMemoryId, aliasSourceId, aliasMemoryId, reason, isActive) ==
  [canonicalSourceId |-> canonicalSourceId, canonicalMemoryId |-> canonicalMemoryId,
   aliasSourceId |-> aliasSourceId, aliasMemoryId |-> aliasMemoryId,
   confidence |-> NullConfidence, reason |-> reason, isActive |-> isActive]

\* (aliasProposals, defaultIsActive) of the calls of
\* applyConsolidatorAliasProposals made
AliasInputs ==
  {<<<<Proposal("", MAnna, "", MExt, "dup", "undefined")>>, FALSE>>,
   <<<<Proposal("sha256(a.txt)", NoMemoryId, "ext:doc 1", NoMemoryId, "", "true")>>, FALSE>>,
   <<<<Proposal("", MAnna, "", MSoccer, "", "true"),
       Proposal("", MGone, "ext:doc 1", NoMemoryId, "", "true"),
       Proposal("ext:doc 1", NoMemoryId, "sha256(b.txt)", NoMemoryId, "", "false")>>, FALSE>>,
   <<<<Proposal("sha256(b.txt)", NoMemoryId, "ext:doc 1", NoMemoryId, "", "true"),
       Proposal("sha256(a.txt)", NoMemoryId, "ext:doc 1", NoMemoryId, "", "true")>>, FALSE>>,
   <<<<Proposal("", MExt, "", MAnna, "", "undefined")>>, TRUE>>,
   <<<<Proposal("", MExt, "", MAnna, "", "false")>>, TRUE>>,
   <<<<Proposal("ext:doc 1", NoMemoryId, "sha256(b.txt)", NoMemoryId, "first", "true"),
       Proposal("sha256(a.txt)", NoMemoryId, "sha256(b.txt)", NoMemoryId, "", "undefined")>>, TRUE>>}

ErrMissingName == "Missing filename or externalSourceId"
ErrMissingMarkdown == "Missing markdown"
ErrUniqueVersion == "UNIQUE constraint failed: pm_source_versions.source_id, pm_source_versions.checksum"
ErrExtractor == "OPENAI_API_KEY is required for memory extraction."

(* ---------------------------------------------------------------------- *)
(* Notes and retrieval                                                     *)
(* ---------------------------------------------------------------------- *)
\* Instants are counted in half seconds, so that two notes can be created
\* inside one second. 1000 * 60 * 60 * 24 * 30 ms in half seconds:
FreshnessWindow == 2 * 60 * 60 * 24 * 30

\* datetime(created_at): the instant cut to whole seconds
Datetime(instant) == instant \div 2

\* String(value || "").trim()
Trim(text) == IF text = "  " THEN "" ELSE text

\* tokenize: lower case, letters and digits only, split at white space
tokenize(text) ==
  CASE text = "soccer practice" -> <<"soccer", "practice">>
    [] text = "anna likes soccer" -> <<"anna", "likes", "soccer">>
    [] text = "a summary" -> <<"a", "summary">>
    [] text = "soccer" -> <<"soccer">>
    [] text = "Soccer, Anna?" -> <<"soccer", "anna">>
    [] text = "home" -> <<"home">>
    [] text = "work" -> <<"work">>
    [] text = "recent" -> <<"recent">>
    [] OTHER -> <<>>

Range(seq) == {seq[i] : i \in DOMAIN seq}

\* A vector is kept as its producer (vectors of the model and of
\* pseudoEmbedding differ in length; "zero" is the all-zero vector) and its
\* direction, in steps of 60 degrees.
Vector(kind, angle) == [kind |-> kind, angle |-> angle]

\* pseudoEmbedding: a function of the tokens alone, with no negative
\* component, the zero vector for a text without tokens
pseudoEmbeddingOfTokens(tokens) ==
  IF tokens = {} THEN Vector("zero", 0)
  ELSE Vector("pseudo", IF "anna" \in tokens THEN 1 ELSE 0)

pseudoEmbedding(text) == pseudoEmbeddingOfTokens(Range(tokenize(text)))

\* cosineSimilarity, in halves: 0 for vectors of different lengths or a
\* zero vector, else the cosine of the angle between the two
cosineSimilarity(a, b) ==
  IF a.kind # b.kind \/ a.kind = "zero" THEN 0
  ELSE <<2, 1, -1, -2>>[Max(a.angle - b.angle, b.angle - a.angle) + 1]

\* heuristicSummary: the text itself when it is short, "No content" for none
heuristicSummary(text) == IF Trim(text) = "" THEN "No content" ELSE text

\* a limit argument: a finite number or anything else
Limit(value) == [finite |-> TRUE, value |-> value]
NotANumber == [finite |-> FALSE, value |-> 0]

clampInt(limit, min, max, fallback) ==
  IF ~limit.finite THEN fallback ELSE Min(max, Max(min, limit.value))

\* the rows of listByProjectStmt: the notes of the project (all notes for
\* a null project), ORDER BY datetime(created_at) DESC LIMIT ?; the order of
\* rows with equal datetime is any, so this is the set of possible results
listByProject(ns, project, limit) ==
  LET bounded == Max(1, Min(RepoMaxLimit, limit))
      matching == {i \in DOMAIN ns : project = "" \/ ns[i].project = project}
      k == Cardinality(matching)
      orders == {f \in [1..k -> matching] :
                   /\ \A i, j \in 1..k : i # j => f[i] # f[j]
                   /\ \A i, j \in 1..k :
                        i < j => Datetime(ns[f[i]].createdAt) >= Datetime(ns[f[j]].createdAt)}
  IN {[i \in 1..Min(bounded, k) |-> ns[f[i]]] : f \in orders}

materializeCitation(note, score, rank) == [rank |-> rank, score |-> score, note |-> note]

\* lexicalScore times the number of query tokens: the overlap
lexicalOverlap(note, queryTokens) ==
  LET noteTokens == Range(tokenize(note.content)) \cup Range(tokenize(note.summary))
                      \cup Range(tokenize(note.project))
  IN Cardinality({i \in DOMAIN queryTokens : queryTokens[i] \in noteTokens})

\* Math.max(0, 1 - (Date.now() - createdAt) / 30 days), times FreshnessWindow
freshness(note, at) == Max(0, FreshnessWindow - (at - note.createdAt))

\* the vector the ranking uses for a note
noteEmbedding(note) ==
  IF note.embedding.kind = "null"
    THEN pseudoEmbeddingOfTokens(Range(tokenize(note.content))
                                   \cup Range(tokenize(note.summary)))
  ELSE note.embedding

\* semantic * 0.82 + lexical * 0.13 + freshnessBoost, in units of
\* 1 / (200 * FreshnessWindow * number of query tokens); the unit is the
\* same for every note of one search
ScoreOf(note, queryTokens, queryEmbedding, at) ==
  LET n == Max(1, Len(queryTokens))
  IN SemanticWeight * cosineSimilarity(queryEmbedding, noteEmbedding(note)) * n * FreshnessWindow
     + LexicalWeight * lexicalOverlap(note, queryTokens) * 2 * FreshnessWindow
     + FreshnessWeight * freshness(note, at) * 2 * n

\* ranked.sort((a, b) => b.score - a.score): descending, and stable
RECURSIVE sortByScore(_)
sortByScore(ranked) ==
  IF ranked = <<>> THEN <<>>
  ELSE LET rest == sortByScore(Tail(ranked))
           first == Head(ranked)
           ahead == SelectSeq(rest, LAMBDA item : item.score > first.score)
           behind == SelectSeq(rest, LAMBDA item : item.score <= first.score)
       IN ahead \o <<first>> \o behind

\* searchMemories once the window rows and the query vector are known
searchMemories(rows, query, limit, queryEmbedding, at) ==
  LET boundedLimit == clampInt(limit, 1, MaxSearchLimit, DefaultSearchLimit)
      normalizedQuery == Trim(query)
      queryTokens == tokenize(normalizedQuery)
      ranked == sortByScore([i \in DOMAIN rows |->
                  [note |-> rows[i],
                   score |-> ScoreOf(rows[i], queryTokens, queryEmbedding, at)]])
  IN IF normalizedQuery = ""
       THEN [i \in DOMAIN rows |-> materializeCitation(rows[i], 1000 - (i - 1), i)]
     ELSE [i \in 1..Min(boundedLimit, Len(ranked)) |->
             materializeCitation(ranked[i].note, ranked[i].score, i)]

\* the rows searchMemories asks the repository for
WindowRows(ns, query, project, limit) ==
  listByProject(ns, Trim(project),
                IF Trim(query) = ""
                  THEN clampInt(limit, 1, MaxSearchLimit, DefaultSearchLimit)
                  ELSE CandidateWindow)

\* the vectors createEmbedding can return for the query: the model's (any
\* direction) when a key is configured and the call succeeds, else the
\* pseudo embedding
ModelVectors == {Vector("model", angle) : angle \in 0..1}
QueryVectors(query, hasOpenAI) ==
  {pseudoEmbedding(Trim(query))} \cup (IF hasOpenAI THEN ModelVectors ELSE {})

NoReply ==
  [op |-> "none", outcome |-> "ok", error |-> "", query |-> "", project |-> "",
   limit |-> NotANumber, at |-> 0, queryEmbedding |-> Vector("zero", 0),
   citations |-> <<>>, mode |-> "", llm |-> "none", head |-> "", bullets |-> <<>>]

(* ---------------------------------------------------------------------- *)
(* Initial state, frames and events                                        *)
(* ---------------------------------------------------------------------- *)
vars == <<sources, versions, memories, categories, related, evidence, aliases,
          runs, calls, last, now, notes, reply>>

Tables == [memories |-> memories, categories |-> categories,
           related |-> related, evidence |-> evidence]

NoChecksum == [sha256 |-> ""]

IdleFrame ==
  [pc |-> "idle", sourceId |-> "", checksum |-> NoChecksum, version |-> 0,
   changed |-> FALSE, runId |-> 0, error |-> "", extractedMemories |-> {}]

\* outcome is "pending" while the call goes on, "ok" when it returned and
\* "thrown" when it threw
NoEvent ==
  [op |-> "init", proc |-> 0, sourceId |-> "", checksum |-> NoChecksum,
   outcome |-> "pending", error |-> "", changed |-> FALSE, skipped |-> FALSE,
   version |-> 0, runId |-> 0, extractedMemories |-> {}, extractedCount |-> 0,
   allowEmpty |-> FALSE, survivorIds |-> {}, appliedCategoryCount |-> 0,
   appliedRelationCount |-> 0, appliedAliasCount |-> 0]

MarkdownA == Markdown("a", FALSE)

\* a row of the deprecated one-row-per-document representation
LegacyRow(sourceId) ==
  [memoryId |-> LegacyMemoryId(sourceId), sourceId |-> sourceId, latestVersion |-> 1,
   titleManual |-> "", notesManual |-> "", pinnedTags |-> {},
   categoryOverrides |-> {}, createdAt |-> 1, updatedAt |-> 1,
   summaryAuto |-> Soccer, effectiveTitle |-> "",
   effectiveSummary |-> Soccer, memoryKind |-> "document", extractedKind |-> "",
   sourceFilename |-> "a.txt", sourceVersion |-> 1,
   extractionConfidence |-> NullConfidence,
   citationStart |-> NullOffset, citationEnd |-> NullOffset]

LegacySource == "sha256(a.txt)"

\* an empty store, or a store an older release left one document memory in
Init ==
  /\ \E legacy \in BOOLEAN :
       IF legacy
         THEN /\ sources = (LegacySource :> [sourceFilename |-> "a.txt",
                                              lastChecksum |-> Checksum(MarkdownA)])
              /\ versions = {[sourceId |-> LegacySource, version |-> 1,
                              checksum |-> Checksum(MarkdownA),
                              contentMarkdown |-> MarkdownA]}
              /\ memories = (LegacyMemoryId(LegacySource) :> LegacyRow(LegacySource))
         ELSE /\ sources = <<>>
              /\ versions = {}
              /\ memories = <<>>
  /\ categories = {}
  /\ related = {}
  /\ evidence = EmptyBag
  /\ aliases = <<>>
  /\ now = 1
  /\ notes = <<>>
  /\ reply = NoReply
  /\ runs = <<>>
  /\ calls = [p \in Procs |-> IdleFrame]
  /\ last = NoEvent

SetTables(st) ==
  /\ memories' = st.memories
  /\ categories' = st.categories
  /\ related' = st.related
  /\ evidence' = st.evidence

Event(op, p, frame) ==
  [NoEvent EXCEPT !.op = op, !.proc = p, !.sourceId = frame.sourceId,
                  !.checksum = frame.checksum, !.version = frame.version,
                  !.changed = frame.changed, !.runId = frame.runId]

Throws(event, error) == [event EXCEPT !.outcome = "thrown", !.error = error]

\* mutant: the guard is gone, every call extracts
SkipExtractionNever(changed, existingExtracted, hasLegacyDocumentMemory) == FALSE

\* if (!versionResult.changed && existingExtracted.length > 0 && !hasLegacyDocumentMemory)
SkipExtraction(changed, existingExtracted, hasLegacyDocumentMemory) ==
  ~changed /\ existingExtracted # {} /\ ~hasLegacyDocumentMemory

\* mutant: the arguments are not checked
IngestArgumentsUnchecked(normalizedFilename, normalizedExternalSourceId, strictMarkdown) == ""

\* the two throws that precede the first write; "" when neither fires
IngestArgumentError(normalizedFilename, normalizedExternalSourceId, strictMarkdown) ==
  IF normalizedFilename = "" /\ normalizedExternalSourceId = "" THEN ErrMissingName
  ELSE IF strictMarkdown.body = "" THEN ErrMissingMarkdown
  ELSE ""

\* ingestProcessedMarkdown up to its first suspension (the Extractor call)
IngestBegin(p, filename, externalSourceId, markdown) ==
  LET normalizedFilename == NormalizeFilename(filename)
      normalizedExternalSourceId == normalizeExternalSourceId(externalSourceId)
      sourceId == buildSourceId(normalizedFilename, externalSourceId)
      strictMarkdown == StrictMarkdown(markdown)
      checksum == Checksum(strictMarkdown)
      srcs == upsertSource(sources, sourceId,
                SourceFilenameOf(normalizedFilename, externalSourceId), checksum)
      versionResult == createVersionIfChanged(versions, sourceId, checksum, strictMarkdown)
      existingForSource == listMemoryRecordsBySource(memories, sourceId)
      existingExtracted == {row \in existingForSource : isExtractedAtomicMemory(row)}
      hasLegacyDocumentMemory == \E row \in existingForSource : row.memoryId = LegacyMemoryId(sourceId)
      frame == [IdleFrame EXCEPT !.sourceId = sourceId, !.checksum = checksum,
                                 !.version = versionResult.version,
                                 !.changed = versionResult.changed]
      event == Event("ingestBegin", p, frame)
      invalid == IngestArgumentError(normalizedFilename, normalizedExternalSourceId,
                                     strictMarkdown)
  IN /\ calls[p].pc = "idle"
     /\ UNCHANGED <<memories, categories, related, evidence, aliases, now, notes, reply>>
     /\ IF invalid # ""
          THEN /\ last' = Throws(Event("ingestBegin", p, IdleFrame), invalid)
               /\ UNCHANGED <<sources, versions, runs, calls>>
        ELSE IF versionResult.threw
          THEN /\ sources' = srcs
               /\ last' = Throws(event, ErrUniqueVersion)
               /\ UNCHANGED <<versions, runs, calls>>
        ELSE IF SkipExtraction(versionResult.changed, existingExtracted, hasLegacyDocumentMemory)
          THEN /\ sources' = srcs
               /\ versions' = versionResult.versions
               /\ last' = [event EXCEPT !.outcome = "ok", !.skipped = TRUE,
                                        !.extractedMemories = existingExtracted,
                                        !.extractedCount = Cardinality(existingExtracted)]
               /\ UNCHANGED <<runs, calls>>
        ELSE /\ Len(runs) < MaxRuns
             /\ sources' = srcs
             /\ versions' = versionResult.versions
             /\ runs' = Append(runs, [sourceId |-> sourceId,
                                      sourceVersion |-> versionResult.version,
                                      status |-> "running", extractedCount |-> 0,
                                      errorText |-> ""])
             /\ calls' = [calls EXCEPT ![p] = [frame EXCEPT !.pc = "extracting",
                                                            !.runId = Len(runs) + 1]]
             /\ last' = [event EXCEPT !.runId = Len(runs) + 1]

\* mutant: the error text is not written
finishExtractionRunNoError(rs, runId, status, extractedCount, errorText) ==
  [rs EXCEPT ![runId] = [@ EXCEPT !.status = status,
                                  !.extractedCount = extractedCount]]

\* mutant: the UPDATE has no WHERE clause
finishExtractionRunAllRows(rs, runId, status, extractedCount, errorText) ==
  [i \in DOMAIN rs |-> [rs[i] EXCEPT !.status = status,
                                      !.extractedCount = extractedCount,
                                      !.errorText = errorText]]

\* finishExtractionRun: UPDATE pm_extraction_runs SET ... WHERE run_id = ?
finishExtractionRun(rs, runId, status, extractedCount, errorText) ==
  [rs EXCEPT ![runId] = [@ EXCEPT !.status = status,
                                  !.extractedCount = extractedCount,
                                  !.errorText = errorText]]

\* mutant: a local heuristic extraction is persisted when the Extractor fails
ExtractorRejectFallback(p, error) ==
  /\ calls[p].pc = "extracting"
  /\ runs' = finishExtractionRun(runs, calls[p].runId, "failed", 0, error)
  /\ SetTables(applyExtractedMemories(sources, versions, Tables, calls[p].sourceId,
                                      calls[p].version, <<CAnna>>, TRUE).st)
  /\ calls' = [calls EXCEPT ![p] = IdleFrame]
  /\ last' = Throws(Event("extractorReject", p, calls[p]), error)
  /\ UNCHANGED <<sources, versions, aliases, now, notes, reply>>

\* the Extractor is unavailable or throws: the catch block of ingest runs
ExtractorReject(p, error) ==
  /\ calls[p].pc = "extracting"
  /\ runs' = finishExtractionRun(runs, calls[p].runId, "failed", 0, error)
  /\ calls' = [calls EXCEPT ![p] = IdleFrame]
  /\ last' = Throws(Event("extractorReject", p, calls[p]), error)
  /\ UNCHANGED <<sources, versions, memories, categories, related, evidence, aliases, now, notes, reply>>

\* the memoryIds of the candidates that pass the filter of
\* applyExtractedMemories: kind non-empty, statement of 10 characters or more
SurvivorIds(sourceId, cands) ==
  {[src |-> sourceId,
    fp |-> [kind |-> KindLower(cands[i].kind),
            text |-> ToLowerCase(NormalizeSentence(cands[i].statement, FingerprintMaxLen))]] :
     i \in {j \in DOMAIN cands :
              /\ KindLower(cands[j].kind) # ""
              /\ cands[j].statement.len - cands[j].statement.extra >= MinStatementLen}}

RowSet(rows) == {rows[i] : i \in DOMAIN rows}

\* the Extractor returns a memories array and ingest calls
\* applyExtractedMemories with allowEmpty: false
IngestApply(p, cands) ==
  LET r == applyExtractedMemories(sources, versions, Tables, calls[p].sourceId,
                                  calls[p].version, cands, FALSE)
      event == [Event("ingestApply", p, calls[p]) EXCEPT !.survivorIds = SurvivorIds(calls[p].sourceId, cands)]
  IN /\ calls[p].pc = "extracting"
     /\ SetTables(r.st)
     /\ calls' = [calls EXCEPT ![p] =
          IF r.threw
            THEN [@ EXCEPT !.pc = "catching", !.error = r.error]
            ELSE [@ EXCEPT !.pc = "finishing",
                           !.extractedMemories = RowSet(r.extractedMemories)]]
     /\ last' = [event EXCEPT !.error = r.error,
                              !.extractedMemories = RowSet(r.extractedMemories),
                              !.extractedCount = Len(r.extractedMemories)]
     /\ UNCHANGED <<sources, versions, runs, aliases, now, notes, reply>>

\* finishExtractionRun(success) and the return of ingest
IngestFinish(p) ==
  /\ calls[p].pc = "finishing"
  /\ runs' = finishExtractionRun(runs, calls[p].runId, "success",
                                 Cardinality(calls[p].extractedMemories), "")
  /\ calls' = [calls EXCEPT ![p] = IdleFrame]
  /\ last' = [Event("ingestFinish", p, calls[p]) EXCEPT
                !.outcome = "ok",
                !.extractedMemories = calls[p].extractedMemories,
                !.extractedCount = Cardinality(calls[p].extractedMemories)]
  /\ UNCHANGED <<sources, versions, memories, categories, related, evidence, aliases, now, notes, reply>>

\* the catch block after applyExtractedMemories threw
IngestCatch(p) ==
  /\ calls[p].pc = "catching"
  /\ runs' = finishExtractionRun(runs, calls[p].runId, "failed", 0, calls[p].error)
  /\ calls' = [calls EXCEPT ![p] = IdleFrame]
  /\ last' = Throws(Event("ingestCatch", p, calls[p]), calls[p].error)
  /\ UNCHANGED <<sources, versions, memories, categories, related, evidence, aliases, now, notes, reply>>

\* applyExtractedMemories called directly (the apply_extracted_memories tool)
ApplyExtracted(sourceId, sourceVersion, cands, allowEmpty) ==
  LET r == applyExtractedMemories(sources, versions, Tables, sourceId,
                                  sourceVersion, cands, allowEmpty)
      event == [NoEvent EXCEPT !.op = "applyExtracted",
                               !.sourceId = sourceId, !.version = sourceVersion,
                               !.allowEmpty = allowEmpty,
                               !.survivorIds = SurvivorIds(sourceId, cands)]
  IN /\ SetTables(r.st)
     /\ last' = IF r.threw
                  THEN Throws(event, r.error)
                  ELSE [event EXCEPT !.outcome = "ok",
                                     !.extractedMemories = RowSet(r.extractedMemories),
                                     !.extractedCount = Len(r.extractedMemories)]
     /\ UNCHANGED <<sources, versions, runs, calls, aliases, now, notes, reply>>

\* applyOrganizerDecisions (the apply_organizer_decisions tool); the
\* function makes no asynchronous call, so it runs as one step
ApplyOrganizer(categoryAssignments, relatedLinks, assignmentSource) ==
  LET r == applyOrganizerDecisions(Tables, categoryAssignments, relatedLinks,
                                   assignmentSource, "related")
      event == [NoEvent EXCEPT !.op = "organizer",
                               !.appliedCategoryCount = r.appliedCategoryCount,
                               !.appliedRelationCount = r.appliedRelationCount]
  IN /\ SetTables(r.st)
     /\ last' = IF r.threw THEN Throws(event, r.error)
                ELSE [event EXCEPT !.outcome = "ok"]
     /\ UNCHANGED <<sources, versions, runs, calls, aliases, now, notes, reply>>

\* applyConsolidatorAliasProposals (the apply_consolidator_aliases tool)
ApplyConsolidator(aliasProposals, defaultIsActive) ==
  LET r == applyConsolidatorAliasProposals(sources, memories, aliases, aliasProposals,
                                           "consolidator_agent", defaultIsActive)
      event == [NoEvent EXCEPT !.op = "consolidator",
                               !.appliedAliasCount = r.appliedAliasCount]
  IN /\ aliases' = r.aliases
     /\ last' = IF r.threw THEN Throws(event, r.error)
                ELSE [event EXCEPT !.outcome = "ok"]
     /\ UNCHANGED <<sources, versions, memories, categories, related, evidence,
                    runs, calls, now, notes, reply>>

\* time passes between two calls
Tick ==
  /\ now < MaxClock
  /\ now' = now + 1
  /\ last' = [NoEvent EXCEPT !.op = "tick"]
  /\ UNCHANGED <<sources, versions, memories, categories, related, evidence,
                 aliases, runs, calls, notes, reply>>

\* the clock moves on by half a second or by thirty days; the reply of the
\* call before has been taken by then
ElapseSteps == {1, FreshnessWindow}

Elapse(step) ==
  /\ now + step <= (IF step = 1 THEN 0 ELSE FreshnessWindow) + MaxClock + 1
  /\ now' = now + step
  /\ reply' = NoReply
  /\ UNCHANGED <<sources, versions, memories, categories, related, evidence,
                 aliases, runs, calls, last, notes>>

\* createMemory for a text note: the row is inserted at the clock's instant
\* and gets its summary, project and embedding; blank content throws before
\* the insert
createMemory(content, project, summary, embedding) ==
  /\ Len(notes) < MaxNotes
  /\ Trim(content) # ""
  /\ notes' = Append(notes, [id |-> Len(notes) + 1, content |-> content,
                             summary |-> summary, project |-> project,
                             createdAt |-> now, embedding |-> embedding])
  /\ reply' = [NoReply EXCEPT !.op = "create", !.at = now]
  /\ UNCHANGED <<sources, versions, memories, categories, related, evidence,
                 aliases, runs, calls, last, now>>

\* - [N1] summary, or the heuristic summary of the content
Bullets(citations) ==
  [i \in DOMAIN citations |->
     [label |-> i,
      text |-> IF citations[i].note.summary # "" THEN citations[i].note.summary
               ELSE heuristicSummary(citations[i].note.content)]]

Request(op, query, project, limit, llm) ==
  [NoReply EXCEPT !.op = op, !.query = query, !.project = project,
                  !.limit = limit, !.at = now, !.llm = llm]

Search(query, project, limit, hasOpenAI) ==
  /\ \E queryEmbedding \in QueryVectors(query, hasOpenAI /\ Trim(query) # "") :
     \E rows \in WindowRows(notes, query, project, limit) :
       reply' = [Request("search", query, project, limit, "none") EXCEPT
                   !.queryEmbedding = queryEmbedding,
                   !.citations = searchMemories(rows, query, limit, queryEmbedding, now)]
  /\ UNCHANGED <<sources, versions, memories, categories, related, evidence,
                 aliases, runs, calls, last, now, notes>>

\* mutant: a failed model call is thrown on to the caller
AnswerRethrow(request, citations, emptyText, heuristicHead, fallbackHead, modelText, blankText, bulletCount) ==
  IF citations # <<>> /\ request.llm = "throws"
    THEN [request EXCEPT !.outcome = "thrown", !.error = "Responses API error"]
  ELSE [request EXCEPT
          !.citations = citations,
          !.mode = IF citations = <<>> THEN "empty"
                   ELSE IF request.llm = "none" THEN "heuristic" ELSE "openai",
          !.head = IF citations = <<>> THEN emptyText
                   ELSE IF request.llm = "none" THEN heuristicHead
                   ELSE IF request.llm = "blank" THEN blankText ELSE modelText,
          !.bullets = IF citations = <<>> \/ request.llm # "none" THEN <<>>
                      ELSE Bullets(SubSeq(citations, 1, Min(bulletCount, Len(citations))))]

\* what askMemories and buildProjectContext return once the citations are
\* known: llm is "none" without a configured key, "ok" for a model call that
\* returns text, "blank" for one that returns none, "throws" for one that
\* throws
Answer(request, citations, emptyText, heuristicHead, fallbackHead, modelText, blankText, bulletCount) ==
  LET bullets == Bullets(SubSeq(citations, 1, Min(bulletCount, Len(citations))))
  IN IF citations = <<>>
       THEN [request EXCEPT !.mode = "empty", !.head = emptyText]
     ELSE IF request.llm = "none"
       THEN [request EXCEPT !.citations = citations, !.mode = "heuristic",
                            !.head = heuristicHead, !.bullets = bullets]
     ELSE IF request.llm = "throws"
       THEN [request EXCEPT !.citations = citations, !.mode = "fallback",
                            !.head = fallbackHead, !.bullets = bullets]
     ELSE [request EXCEPT !.citations = citations, !.mode = "openai",
                          !.head = IF request.llm = "blank" THEN blankText ELSE modelText]

ErrMissingQuestion == "Missing question"

\* the texts the model returns for an answer: what it cites is its own choice
ModelTexts == {"Anna likes soccer [N1].", "Anna likes soccer [N3]."}

\* the k of the [Nk] labels in a text the code or the model wrote
LabelsOf(text) ==
  CASE text = "Anna likes soccer [N1]." -> {1}
    [] text = "Anna likes soccer [N3]." -> {3}
    [] OTHER -> {}

askMemories(question, project, limit, llm) ==
  LET normalizedQuestion == Trim(question)
      request == Request("ask", question, project, limit, llm)
  IN /\ IF normalizedQuestion = ""
          THEN reply' = [request EXCEPT !.outcome = "thrown", !.error = ErrMissingQuestion]
        ELSE \E queryEmbedding \in QueryVectors(normalizedQuestion, llm # "none") :
             \E rows \in WindowRows(notes, normalizedQuestion, project, limit) :
             \E modelText \in ModelTexts :
               reply' = Answer([request EXCEPT !.queryEmbedding = queryEmbedding],
                               searchMemories(rows, normalizedQuestion, limit,
                                              queryEmbedding, now),
                               "No relevant memory found yet. Save a few notes first.",
                               "Based on your saved notes:",
                               "I could not call the model, but these notes look relevant:",
                               modelText, "I could not generate an answer.",
                               BulletCount)
     /\ UNCHANGED <<sources, versions, memories, categories, related, evidence,
                    aliases, runs, calls, last, now, notes>>

buildProjectContext(task, project, limit, llm) ==
  LET normalizedTask == Trim(task)
      query == IF normalizedTask # "" THEN normalizedTask
               ELSE IF project # "" THEN project ELSE "recent"
      request == Request("context", task, project, limit, llm)
  IN /\ \E queryEmbedding \in QueryVectors(query, llm # "none" /\ Trim(query) # "") :
        \E rows \in WindowRows(notes, query, project, limit) :
          reply' = Answer([request EXCEPT !.queryEmbedding = queryEmbedding],
                          searchMemories(rows, query, limit, queryEmbedding, now),
                          "No project context found yet.", "", "",
                          "model text", "No context generated.", MaxNotes)
     /\ UNCHANGED <<sources, versions, memories, categories, related, evidence,
                    aliases, runs, calls, last, now, notes>>

\* (content, project, summary, embedding) of the notes saved
NoteInputs ==
  {<<"soccer practice", "home", heuristicSummary("soccer practice"),
     pseudoEmbedding("soccer practice")>>,
   <<"anna likes soccer", "work", "a summary", Vector("model", 0)>>,
   <<"anna likes soccer", "home", heuristicSummary("anna likes soccer"),
     Vector("model", 2)>>}

\* (query, project, limit, hasOpenAI) of the calls of searchMemories made
SearchInputs ==
  {<<"  ", "", Limit(0), FALSE>>,
   <<"  ", "", NotANumber, TRUE>>,
   <<"  ", "home", Limit(200), FALSE>>,
   <<"soccer", "", Limit(0), FALSE>>,
   <<"Soccer, Anna?", "", NotANumber, TRUE>>,
   <<"!!!", "home", Limit(200), TRUE>>}

\* (question, project, limit, llm) of the calls of askMemories made
AskInputs ==
  {<<"  ", "", NotANumber, "ok">>,
   <<"soccer", "", NotANumber, "none">>,
   <<"Soccer, Anna?", "", Limit(0), "ok">>,
   <<"soccer", "home", NotANumber, "throws">>,
   <<"!!!", "", NotANumber, "blank">>}

\* (task, project, limit, llm) of the calls of buildProjectContext made
ContextInputs ==
  {<<"  ", "", NotANumber, "none">>,
   <<"  ", "home", Limit(200), "throws">>,
   <<"soccer", "", Limit(0), "ok">>,
   <<"Soccer, Anna?", "home", NotANumber, "blank">>}

NextSearch ==
  \/ \E in \in NoteInputs : createMemory(in[1], in[2], in[3], in[4])
  \/ \E step \in ElapseSteps : Elapse(step)
  \/ \E in \in SearchInputs : Search(in[1], in[2], in[3], in[4])
  \/ \E in \in AskInputs : askMemories(in[1], in[2], in[3], in[4])
  \/ \E in \in ContextInputs : buildProjectContext(in[1], in[2], in[3], in[4])

InitSearch == Init /\ memories = <<>>

SpecSearch == InitSearch /\ [][NextSearch]_vars

IngestNext(p) ==
  \/ \E in \in IngestInputs : IngestBegin(p, in[1], in[2], in[3])
  \/ \E cands \in ExtractorOutputs : IngestApply(p, cands)
  \/ ExtractorReject(p, ErrExtractor)
  \/ IngestFinish(p)
  \/ IngestCatch(p)

ApplyNext ==
  \E in \in ApplyInputs : ApplyExtracted(in[1], in[2], in[3], in[4])

Next == (\E p \in Procs : IngestNext(p)) \/ ApplyNext

Spec == Init /\ [][Next]_vars

\* the ingest pipeline alone, callers overlapping at the Extractor call
NextIngest == \E p \in Procs : IngestNext(p)

SpecIngest == Init /\ [][NextIngest]_vars

\* one caller: every call completes before the next one starts
NextSeq == IngestNext(1) \/ (calls[1].pc = "idle" /\ ApplyNext)

SpecSeq == Init /\ [][NextSeq]_vars

OrganizerNext ==
  \E in \in OrganizerInputs : ApplyOrganizer(in[1], in[2], in[3])

ConsolidatorNext ==
  \E in \in AliasInputs : ApplyConsolidator(in[1], in[2])

FailedRun(sourceId, sourceVersion) ==
  [sourceId |-> sourceId, sourceVersion |-> sourceVersion, status |-> "failed",
   extractedCount |-> 0, errorText |-> ErrExtractor]

\* the row of MAnna after the user entered a title, notes, a pinned tag and
\* a category override; the effective title is then the title entered
EditedRow(row) ==
  [row EXCEPT !.titleManual = "My title", !.notesManual = "My notes",
              !.pinnedTags = {"pinned"}, !.categoryOverrides = {"cat_events"},
              !.effectiveTitle = "My title"]

\* the store after a.txt was ingested with markdown a, then b, and the
\* external document with markdown a: either every extraction failed, or the
\* first one stored the memory MAnna and the user edited it afterwards
InitOrganize ==
  /\ now = 1
  /\ notes = <<>>
  /\ reply = NoReply
  /\ sources = ("sha256(a.txt)" :> [sourceFilename |-> "a.txt",
                                    lastChecksum |-> Checksum(Markdown("b", FALSE))])
               @@ ("ext:doc 1" :> [sourceFilename |-> "doc 1",
                                   lastChecksum |-> Checksum(MarkdownA)])
  /\ versions = {[sourceId |-> "sha256(a.txt)", version |-> 1,
                  checksum |-> Checksum(MarkdownA), contentMarkdown |-> MarkdownA],
                 [sourceId |-> "sha256(a.txt)", version |-> 2,
                  checksum |-> Checksum(Markdown("b", FALSE)),
                  contentMarkdown |-> Markdown("b", FALSE)],
                 [sourceId |-> "ext:doc 1", version |-> 1,
                  checksum |-> Checksum(MarkdownA), contentMarkdown |-> MarkdownA]}
  /\ \E edited \in BOOLEAN :
       LET empty == [memories |-> <<>>, categories |-> {}, related |-> {},
                     evidence |-> EmptyBag]
           st == applyExtractedMemories(sources, versions, empty, "sha256(a.txt)", 1,
                                        <<CAnna>>, FALSE).st
       IN IF edited
            THEN /\ memories = [st.memories EXCEPT ![MAnna] = EditedRow(@)]
                 /\ categories = st.categories
                 /\ evidence = st.evidence
                 /\ runs = <<[FailedRun("sha256(a.txt)", 1) EXCEPT
                                !.status = "success", !.extractedCount = 1,
                                !.errorText = ""],
                             FailedRun("sha256(a.txt)", 2), FailedRun("ext:doc 1", 1)>>
            ELSE /\ memories = <<>>
                 /\ categories = {}
                 /\ evidence = EmptyBag
                 /\ runs = <<FailedRun("sha256(a.txt)", 1), FailedRun("sha256(a.txt)", 2),
                             FailedRun("ext:doc 1", 1)>>
  /\ related = {}
  /\ aliases = <<>>
  /\ calls = [p \in Procs |-> IdleFrame]
  /\ last = NoEvent

\* extraction apply and organizer passes at different times
NextOrganize == ApplyNext \/ OrganizerNext \/ Tick

SpecOrganize == InitOrganize /\ [][NextOrganize]_vars

\* the three write paths that run after ingestion: extraction apply,
\* organizer and consolidator
NextCurate == ApplyNext \/ OrganizerNext \/ ConsolidatorNext

SpecCurate == InitOrganize /\ [][NextCurate]_vars

(* ---------------------------------------------------------------------- *)
(* Properties                                                              *)
(* ---------------------------------------------------------------------- *)
ExtractedIds(mems, sourceId) ==
  {m \in DOMAIN mems : mems[m].sourceId = sourceId /\ isExtractedAtomicMemory(mems[m])}

IsApplyStep(event) == event.op \in {"applyExtracted", "ingestApply"}

IngestReturned(event) ==
  event.op \in {"ingestBegin", "ingestFinish"} /\ event.outcome = "ok"

\* C1 (idempotent re-ingest): when an ingest call has returned successfully
\* and the next call names the same source with markdown of the same
\* checksum, that call returns changed = false and extractionSkipped = true,
\* adds no ExtractionRun row and no version row, and returns the same set of
\* extracted memories.
C1_IdempotentReingest ==
  [][(/\ IngestReturned(last)
      /\ last'.op = "ingestBegin"
      /\ last'.sourceId = last.sourceId
      /\ last'.checksum = last.checksum)
     => (/\ last'.outcome = "ok"
         /\ last'.skipped
         /\ ~last'.changed
         /\ runs' = runs
         /\ versions' = versions
         /\ last'.extractedMemories = last.extractedMemories)]_vars

C1_Witness ==
  /\ last.op = "ingestBegin"
  /\ last.outcome = "ok"
  /\ last.skipped
  /\ last.extractedCount = 2
  /\ \E i \in DOMAIN runs :
       /\ runs[i].sourceId = last.sourceId
       /\ runs[i].sourceVersion = last.version
       /\ runs[i].status = "success"

\* C2 (version monotonicity): every ingest call that passes validation
\* creates version latest+1 (1 for the first) and reports changed = true when
\* its checksum differs from that of the latest version, also when the
\* markdown was ingested earlier (A, B, A), and creates no version and
\* reports changed = false when the checksum is that of the latest version.
C2_VersionMonotonic ==
  [][(last'.op = "ingestBegin" /\ last'.sourceId # "")
     => LET s == last'.sourceId
            differs == ~HasVersion(versions, s)
                         \/ getLatestVersion(versions, s).checksum # last'.checksum
            next == IF HasVersion(versions, s)
                      THEN getLatestVersion(versions, s).version + 1 ELSE 1
        IN IF differs
             THEN /\ last'.changed
                  /\ last'.version = next
                  /\ \E v \in versions' \ versions :
                       /\ v.sourceId = s /\ v.version = next /\ v.checksum = last'.checksum
                       /\ versions' = versions \cup {v}
             ELSE /\ ~last'.changed
                  /\ versions' = versions]_vars

\* C3 (empty-result guard): applyExtractedMemories with allowEmpty = false
\* and no surviving candidate throws and leaves every Memory, Evidence,
\* CategoryAssignment and related-link row unchanged.
C3_EmptyResultGuard ==
  [][(IsApplyStep(last') /\ ~last'.allowEmpty /\ last'.survivorIds = {})
     => (/\ last'.error # ""
         /\ last'.extractedMemories = {}
         /\ UNCHANGED <<memories, evidence, categories, related>>)]_vars

C3_Witness ==
  /\ IsApplyStep(last)
  /\ ~last.allowEmpty
  /\ last.survivorIds = {}
  /\ last.error = ErrZeroMemories
  /\ ExtractedIds(memories, last.sourceId) # {}
  /\ LegacyMemoryId("ext:doc 1") \notin DOMAIN memories

\* C4 (failed extraction): when the Extractor call or applyExtractedMemories
\* throws during ingest, the run the call opened ends failed with the error
\* text and the same error is raised to the caller; a call whose apply threw
\* never completes with success.
C4_FailureRecorded ==
  /\ last.op = "extractorReject" =>
       /\ last.outcome = "thrown"
       /\ last.error = ErrExtractor
       /\ runs[last.runId].status = "failed"
       /\ runs[last.runId].errorText = ErrExtractor
  /\ last.op = "ingestCatch" =>
       /\ last.outcome = "thrown"
       /\ last.error = ErrZeroMemories
       /\ runs[last.runId].status = "failed"
       /\ runs[last.runId].errorText = ErrZeroMemories
  /\ (last.op = "ingestApply" /\ last.error # "") =>
       /\ calls[last.proc].pc = "catching"
       /\ calls[last.proc].error = last.error
  /\ last.op = "ingestFinish" =>
       /\ last.outcome = "ok"
       /\ runs[last.runId].status = "success"
       /\ runs[last.runId].errorText = ""

C4_Witness ==
  /\ last.op = "ingestCatch"
  /\ \E i \in DOMAIN runs : runs[i].errorText = ErrExtractor

\* C5 (no fallback): a call whose Extractor is unavailable or throws fails,
\* and neither its first part nor its failure handling changes a Memory,
\* CategoryAssignment or Evidence row.
C5_NoFallback ==
  [][(last'.op \in {"ingestBegin", "extractorReject"})
     => (/\ UNCHANGED <<memories, categories, evidence>>
         /\ last'.op = "extractorReject" =>
              (last'.outcome = "thrown" /\ last'.extractedMemories = {}))]_vars

C5_Witness ==
  /\ last.op = "extractorReject"
  /\ last.outcome = "thrown"
  /\ ExtractedIds(memories, last.sourceId) # {}
  /\ last.changed

\* C6 (stale pruning): after a successful applyExtractedMemories call the
\* extracted-atomic-memory rows of the source are exactly the memoryIds of
\* the surviving candidates of that call.
C6_StalePruning ==
  (IsApplyStep(last) /\ last.error = "")
    => ExtractedIds(memories, last.sourceId) = last.survivorIds

C6_Witness ==
  /\ last.op = "ingestApply"
  /\ last.error = ""
  /\ Cardinality(ExtractedIds(memories, last.sourceId)) = 1
  /\ \E i \in DOMAIN runs :
       /\ runs[i].sourceId = last.sourceId
       /\ runs[i].status = "success"
       /\ runs[i].extractedCount = 2

\* C7 (legacy cleanup): after a successful applyExtractedMemories call for a
\* source, and so whenever a run of the source has succeeded, no Memory row
\* with memoryId = sourceId exists.
C7_LegacyCleanup ==
  /\ (IsApplyStep(last) /\ last.error = "")
       => LegacyMemoryId(last.sourceId) \notin DOMAIN memories
  /\ \A i \in DOMAIN runs :
       runs[i].status = "success" => LegacyMemoryId(runs[i].sourceId) \notin DOMAIN memories

C7_Witness ==
  /\ last.op = "applyExtracted"
  /\ last.outcome = "ok"
  /\ last.sourceId = LegacySource
  /\ runs = <<>>

\* C8 (fingerprint stability): a source never holds two Memory rows for the
\* same (kind, statement); applying a fact again, with another title,
\* confidence or evidence, updates the row of its memoryId.
C8_FingerprintStability ==
  /\ \A m1, m2 \in DOMAIN memories :
       (/\ isExtractedAtomicMemory(memories[m1])
        /\ isExtractedAtomicMemory(memories[m2])
        /\ memories[m1].sourceId = memories[m2].sourceId
        /\ memories[m1].extractedKind = memories[m2].extractedKind
        /\ memories[m1].summaryAuto = memories[m2].summaryAuto)
       => m1 = m2
  /\ (IsApplyStep(last) /\ last.error = "")
       => last.extractedCount = Cardinality(last.survivorIds)

C8_Witness ==
  /\ last.op = "ingestApply"
  /\ last.error = ""
  /\ \E m \in ExtractedIds(memories, last.sourceId) :
       /\ memories[m].effectiveTitle = "T2"
       /\ memories[m].latestVersion = 2
  /\ \E i \in DOMAIN runs :
       /\ runs[i].sourceId = last.sourceId
       /\ runs[i].sourceVersion = 1
       /\ runs[i].status = "success"

\* C9 (concurrent ingestion converges): when every ingest call has completed
\* and every run succeeded, the extracted memories of each source are those
\* of its latest version.
C9_Converges ==
  (/\ \A p \in Procs : calls[p].pc = "idle"
   /\ \A i \in DOMAIN runs : runs[i].status = "success")
  => \A s \in DOMAIN sources : \A m \in ExtractedIds(memories, s) :
       memories[m].latestVersion = getLatestVersion(versions, s).version

\* C10 (run lifecycle): a run row is created running, changes once, to
\* success or failed, is never modified afterwards, and is not running once
\* the call that opened it has returned or thrown.
C10_RunLifecycle ==
  /\ [][/\ Len(runs') >= Len(runs)
        /\ \A i \in DOMAIN runs' :
             IF i \notin DOMAIN runs
               THEN runs'[i].status = "running"
               ELSE /\ runs[i].status # "running" => runs'[i] = runs[i]
                    /\ runs[i].status = "running" =>
                         \/ runs'[i] = runs[i]
                         \/ runs'[i].status \in {"success", "failed"}]_vars
  /\ [](\A i \in DOMAIN runs :
          runs[i].status = "running" =>
            \E p \in Procs : calls[p].pc # "idle" /\ calls[p].runId = i)

C10_Witness ==
  /\ Len(runs) = 2
  /\ runs[1].status = "success"
  /\ runs[2].status = "failed"
  /\ \A p \in Procs : calls[p].pc = "idle"

\* C11 (version store): the versions of a source are numbered 1..n with no
\* gap and no duplicate, no two of them share a checksum, a stored version
\* row is never modified or deleted, and a row is added only by the first
\* part of an ingest call whose checksum differs from the latest version's.
C11_VersionStore ==
  /\ [](\A s \in {v.sourceId : v \in versions} :
          LET vs == SourceVersions(versions, s)
          IN /\ {v.version : v \in vs} = 1..Cardinality(vs)
             /\ \A v, w \in vs : v.checksum = w.checksum => v = w)
  /\ [][/\ versions \subseteq versions'
        /\ versions' # versions =>
             /\ last'.op = "ingestBegin"
             /\ \E v \in versions' :
                  /\ versions' = versions \cup {v}
                  /\ v.sourceId = last'.sourceId
                  /\ v.checksum = last'.checksum
                  /\ HasVersion(versions, v.sourceId) =>
                       getLatestVersion(versions, v.sourceId).checksum # v.checksum]_vars

C11_Witness ==
  /\ last.op = "ingestBegin"
  /\ last.outcome = "thrown"
  /\ last.error = ErrUniqueVersion
  /\ Cardinality(SourceVersions(versions, last.sourceId)) = 2

CategoriesOf(cats, assignmentSource) ==
  {c \in cats : c.assignmentSource = assignmentSource}

\* C12 (category scoping): a call of applyOrganizerDecisions never changes
\* an extractor_agent CategoryAssignment row, and a call of
\* applyExtractedMemories never changes an organizer_agent row of a memory
\* that exists after the call.
C12_CategoryScoping ==
  [][/\ last'.op = "organizer" =>
          CategoriesOf(categories', "extractor_agent")
            = CategoriesOf(categories, "extractor_agent")
     /\ IsApplyStep(last') =>
          \A m \in DOMAIN memories' :
            {c \in CategoriesOf(categories', "organizer_agent") : c.memoryId = m}
              = {c \in CategoriesOf(categories, "organizer_agent") : c.memoryId = m}]_vars

EvidenceOf(evid, memoryId) ==
  [e \in {x \in DOMAIN evid : x.memoryId = memoryId} |-> evid[e]]

\* C13 (evidence replacement): after a successful applyExtractedMemories
\* call every memory the call persisted has exactly one Evidence row, and
\* that row names the source and the source version the call was applied to.
C13_EvidenceReplaced ==
  (IsApplyStep(last) /\ last.error = "")
    => \A m \in last.survivorIds :
         /\ BagCardinality(EvidenceOf(evidence, m)) = 1
         /\ \A e \in DOMAIN EvidenceOf(evidence, m) :
              e.sourceId = last.sourceId /\ e.sourceVersion = last.version

C13_Witness ==
  /\ last.op = "ingestApply"
  /\ last.error = ""
  /\ last.version = 2
  /\ \E m \in last.survivorIds : memories[m].effectiveTitle = "T2"
  /\ \E i \in DOMAIN runs :
       /\ runs[i].sourceId = last.sourceId
       /\ runs[i].sourceVersion = 1
       /\ runs[i].status = "success"

\* C14 (manual fields kept): a call of applyExtractedMemories leaves, in
\* every Memory row that exists before and after it, the user-entered
\* fields (titleManual, notesManual, pinnedTags, categoryOverrides), the
\* createdAt and the identity (memoryId, sourceId) as they were.
C14_ManualFieldsKept ==
  [][IsApplyStep(last') =>
       \A m \in DOMAIN memories \cap DOMAIN memories' :
         /\ memories'[m].titleManual = memories[m].titleManual
         /\ memories'[m].notesManual = memories[m].notesManual
         /\ memories'[m].pinnedTags = memories[m].pinnedTags
         /\ memories'[m].categoryOverrides = memories[m].categoryOverrides
         /\ memories'[m].createdAt = memories[m].createdAt
         /\ memories'[m].memoryId = memories[m].memoryId
         /\ memories'[m].sourceId = memories[m].sourceId]_vars

C14_Witness ==
  /\ last.op = "applyExtracted"
  /\ last.outcome = "ok"
  /\ MAnna \in last.survivorIds
  /\ memories[MAnna].titleManual = "My title"
  /\ memories[MAnna].pinnedTags = {"pinned"}
  /\ memories[MAnna].createdAt = 1
  /\ memories[MAnna].updatedAt = 2

\* the link rows without their timestamps
LinkRows(rel) ==
  {[memoryId |-> r.memoryId, relatedMemoryId |-> r.relatedMemoryId,
    relationType |-> r.relationType, confidence |-> r.confidence,
    reason |-> r.reason] : r \in rel}

\* both directed rows of the pair exist and share confidence and reason,
\* which are those of a proposal of the call for that pair
BothDirections(rel, links, a, b) ==
  \E i \in DOMAIN links :
    /\ {links[i].memoryId, links[i].relatedMemoryId} = {a, b}
    /\ \A p \in {<<a, b>>, <<b, a>>} :
         [memoryId |-> p[1], relatedMemoryId |-> p[2], relationType |-> "related",
          confidence |-> links[i].confidence, reason |-> links[i].reason]
           \in LinkRows(rel)

ProperLinks(links) ==
  {i \in DOMAIN links : /\ links[i].memoryId # NoMemoryId
                        /\ links[i].relatedMemoryId # NoMemoryId
                        /\ links[i].memoryId # links[i].relatedMemoryId}

RelatedAfterAgain(in) ==
  applyOrganizerDecisions([memories |-> memories', categories |-> categories',
                           related |-> related', evidence |-> evidence'],
                          in[1], in[2], in[3], "related").st.related

\* C15 as claimed (related links): applyOrganizerDecisions writes both
\* directed rows, with the same confidence and reason, for every proposal
\* with two distinct non-empty endpoints, nothing for a proposal whose
\* endpoints are equal, and applying the decisions again leaves the same rows.
C15_RelatedLinksAlways ==
  [][\A in \in OrganizerInputs :
       ApplyOrganizer(in[1], in[2], in[3]) =>
         /\ \A i \in ProperLinks(in[2]) :
              BothDirections(related', in[2], in[2][i].memoryId, in[2][i].relatedMemoryId)
         /\ \A r \in related' : r.memoryId # r.relatedMemoryId
         /\ LinkRows(RelatedAfterAgain(in)) = LinkRows(related')]_vars

\* C15 amended: a call that returns has written both directed rows for
\* every proposal with two distinct non-empty endpoints; a proposal naming a
\* memory that does not exist makes the call throw and gets no row; no row
\* links a memory to itself; applying the decisions again leaves the same
\* link rows (keys, confidence, reason).
C15_RelatedLinks ==
  [][\A in \in OrganizerInputs :
       ApplyOrganizer(in[1], in[2], in[3]) =>
         /\ last'.outcome = "ok" =>
              \A i \in ProperLinks(in[2]) :
                BothDirections(related', in[2], in[2][i].memoryId, in[2][i].relatedMemoryId)
         /\ \A i \in ProperLinks(in[2]) :
              RelatedForeignKeyFails(memories, in[2][i].memoryId, in[2][i].relatedMemoryId)
                => /\ last'.outcome = "thrown"
                   /\ \A r \in related' :
                        {r.memoryId, r.relatedMemoryId}
                          # {in[2][i].memoryId, in[2][i].relatedMemoryId}
         /\ \A r \in related' : r.memoryId # r.relatedMemoryId
         /\ LinkRows(RelatedAfterAgain(in)) = LinkRows(related')]_vars

C15_Witness ==
  /\ last.op = "organizer"
  /\ last.outcome = "ok"
  /\ last.appliedRelationCount = 2
  /\ \E r \in related :
       /\ r.memoryId = MAnna /\ r.relatedMemoryId = MSoccer
       /\ r.confidence = 7 /\ r.createdAt = 1 /\ r.updatedAt = 2
  /\ \E r \in related : r.memoryId = MExt


\* the source ids a proposal resolves to ("" when it cannot be resolved)
CanonicalOf(mems, proposal) ==
  IF proposal.canonicalSourceId # "" THEN proposal.canonicalSourceId
  ELSE SourceIdByMemoryId(mems, proposal.canonicalMemoryId)

AliasOf(mems, proposal) ==
  IF proposal.aliasSourceId # "" THEN proposal.aliasSourceId
  ELSE SourceIdByMemoryId(mems, proposal.aliasMemoryId)

Resolvable(mems, proposal) ==
  /\ CanonicalOf(mems, proposal) # ""
  /\ AliasOf(mems, proposal) # ""
  /\ CanonicalOf(mems, proposal) # AliasOf(mems, proposal)

\* C16 (review-first aliases): every alias row a call of
\* applyConsolidatorAliasProposals writes comes from a proposal whose alias
\* and canonical source ids resolve and differ, and with defaultIsActive
\* false the row is active only when that proposal sets isActive to true; a
\* call that returns has stored a row for every such proposal.
C16_ReviewFirstAliases ==
  [][\A in \in AliasInputs :
       ApplyConsolidator(in[1], in[2]) =>
         /\ \A a \in DOMAIN aliases' :
              (a \notin DOMAIN aliases \/ aliases'[a] # aliases[a]) =>
                \E i \in DOMAIN in[1] :
                  /\ Resolvable(memories, in[1][i])
                  /\ AliasOf(memories, in[1][i]) = a
                  /\ CanonicalOf(memories, in[1][i]) = aliases'[a].canonicalSourceId
                  /\ ~in[2] => (aliases'[a].isActive <=> in[1][i].isActive = "true")
         /\ last'.outcome = "ok" =>
              \A i \in DOMAIN in[1] :
                Resolvable(memories, in[1][i]) =>
                  AliasOf(memories, in[1][i]) \in DOMAIN aliases'
         /\ (\A i \in DOMAIN in[1] : ~Resolvable(memories, in[1][i])) =>
              aliases' = aliases]_vars

C16_Witness ==
  /\ last.op = "consolidator"
  /\ last.outcome = "ok"
  /\ last.appliedAliasCount = 1
  /\ "ext:doc 1" \in DOMAIN aliases
  /\ ~aliases["ext:doc 1"].isActive
  /\ aliases["ext:doc 1"].reason = <<"consolidator_agent", "dup">>
  /\ "sha256(b.txt)" \in DOMAIN aliases


\* C17 (frame of the curating write paths): a call of
\* applyOrganizerDecisions or applyConsolidatorAliasProposals leaves every
\* Memory row, every Evidence row and every extractor_agent category row
\* as it was.
C17_CuratorsFrame ==
  [][last'.op \in {"organizer", "consolidator"} =>
       /\ memories' = memories
       /\ evidence' = evidence
       /\ CategoriesOf(categories', "extractor_agent")
            = CategoriesOf(categories, "extractor_agent")]_vars

\* C18 (argument errors precede every write): ingestProcessedMarkdown
\* called with neither a filename nor an externalSourceId, or with blank
\* markdown, throws and leaves the source, version, memory, category, link,
\* evidence and ExtractionRun rows as they were.
C18_ThrowsBeforeWrite ==
  [][\A p \in Procs : \A in \in IngestInputs :
       (/\ IngestBegin(p, in[1], in[2], in[3])
        /\ \/ in[1] = "" /\ in[2] = ""
           \/ in[3].body = "") =>
         /\ last'.outcome = "thrown"
         /\ last'.error \in {ErrMissingName, ErrMissingMarkdown}
         /\ UNCHANGED <<sources, versions, memories, categories, related,
                        evidence, aliases, runs>>]_vars

C18_Witness ==
  /\ last.op = "ingestBegin"
  /\ last.outcome = "thrown"
  /\ last.error = ErrMissingMarkdown
  /\ DOMAIN sources # {}
  /\ DOMAIN memories # {}
  /\ Len(runs) > 0

\* C19 (ranking order): the citations searchMemories returns carry ranks
\* 1..N, N is at most the limit clamped to 1..100, and they come in
\* non-increasing score order for a non-empty query (the score being
\* 0.82 * semantic + 0.13 * lexical + 0.05 * recency of the note) and in
\* non-increasing createdAt order for an empty query.
C19_RankingOrder ==
  reply.op = "search" =>
    LET found == reply.citations
        queryTokens == tokenize(Trim(reply.query))
    IN /\ \A i \in DOMAIN found : found[i].rank = i
       /\ Len(found) <= clampInt(reply.limit, 1, MaxSearchLimit, DefaultSearchLimit)
       /\ \A i, j \in DOMAIN found :
            i < j => IF Trim(reply.query) = ""
                       THEN found[i].note.createdAt >= found[j].note.createdAt
                       ELSE found[i].score >= found[j].score
       /\ Trim(reply.query) # "" =>
            \A i \in DOMAIN found :
              found[i].score = ScoreOf(found[i].note, queryTokens,
                                       reply.queryEmbedding, reply.at)


\* the query askMemories and buildProjectContext hand to searchMemories
QueryOf(r) ==
  IF r.op = "ask" \/ Trim(r.query) # "" THEN Trim(r.query)
  ELSE IF r.project # "" THEN r.project ELSE "recent"

\* the citation lists searchMemories can return for the call of reply r
Found(r) ==
  {searchMemories(rows, QueryOf(r), r.limit, r.queryEmbedding, r.at) :
     rows \in WindowRows(notes, QueryOf(r), r.project, r.limit)}

\* the heuristic bullet list of a reply: four bullets at most for an
\* answer, one for every citation for a context
BulletsOf(r) ==
  Bullets(SubSeq(r.citations, 1,
                 IF r.op = "ask" THEN Min(BulletCount, Len(r.citations))
                 ELSE Len(r.citations)))

\* a reply of askMemories or buildProjectContext is returned, not thrown
\* (but for a blank question), and has the mode of its case, modelMode
\* being the one of a successful model call
AnswerDegrades(modelMode) ==
  reply.op \in {"ask", "context"} =>
    IF reply.op = "ask" /\ Trim(reply.query) = ""
      THEN reply.outcome = "thrown" /\ reply.error = ErrMissingQuestion
    ELSE /\ reply.outcome = "ok"
         /\ IF <<>> \in Found(reply)
              THEN /\ reply.mode = "empty"
                   /\ reply.citations = <<>>
                   /\ reply.head = IF reply.op = "ask"
                                     THEN "No relevant memory found yet. Save a few notes first."
                                     ELSE "No project context found yet."
            ELSE /\ reply.citations \in Found(reply)
                 /\ reply.mode = CASE reply.llm = "none" -> "heuristic"
                                   [] reply.llm = "throws" -> "fallback"
                                   [] OTHER -> modelMode
                 /\ reply.mode \in {"heuristic", "fallback"} =>
                      reply.bullets = BulletsOf(reply)

\* C20 as claimed (model-call failures are not propagated): askMemories
\* and buildProjectContext return mode empty without citations, heuristic
\* with citations and no configured LLM, model after a successful model
\* call, and the heuristic bullet list with mode fallback and the same
\* citations when the model call throws.
C20_AnswerModeModel == AnswerDegrades("model")

\* C20 amended: the same, the mode after a successful model call being
\* openai.
C20_AnswerDegrades == AnswerDegrades("openai")

C20_Witness ==
  /\ reply.op = "ask"
  /\ reply.llm = "throws"
  /\ reply.outcome = "ok"
  /\ reply.mode = "fallback"
  /\ Len(reply.citations) = 2
  /\ Len(reply.bullets) = 2
  /\ reply.citations[1].note.createdAt < reply.citations[2].note.createdAt

\* the k of every [Nk] label of the answer text of reply r
AnswerLabels(r) == LabelsOf(r.head) \cup {r.bullets[i].label : i \in DOMAIN r.bullets}

\* C21 (citation alignment): every [Nk] label of the answer text askMemories
\* returns, in every mode, names an entry of the returned citations:
\* 1 <= k <= number of citations.
C21_CitationAlignment ==
  (reply.op = "ask" /\ reply.outcome = "ok") =>
    AnswerLabels(reply) \subseteq 1..Len(reply.citations)

\* one caller that ingests, call after call
NextRetry == IngestNext(1)

SpecRetry == Init /\ [][NextRetry]_vars

\* C22 (memories follow the latest version): when ingestProcessedMarkdown
\* has returned without error for a source, whether it extracted or
\* skipped, every extracted atomic memory of the source has latestVersion
\* equal to the latest stored version of the source.
C22_MemoriesAtLatestVersion ==
  IngestReturned(last) =>
    \A m \in ExtractedIds(memories, last.sourceId) :
      memories[m].latestVersion = getLatestVersion(versions, last.sourceId).version

\* the latest stored version of the source has this checksum
Unchanged(vers, sourceId, checksum) ==
  HasVersion(vers, sourceId) /\ getLatestVersion(vers, sourceId).checksum = checksum

\* C23 (skip guard): an ingest call with a name and markdown skips
\* extraction exactly when the content is unchanged, the source has an
\* extracted atomic memory and has no legacy row; in every other case it
\* opens an ExtractionRun in running state for the version and calls the
\* Extractor.
C23_SkipGuard ==
  [][\A p \in Procs : \A in \in IngestInputs :
       (/\ IngestBegin(p, in[1], in[2], in[3])
        /\ last'.error \notin {ErrMissingName, ErrMissingMarkdown}) =>
         IF /\ Unchanged(versions, last'.sourceId, last'.checksum)
            /\ ExtractedIds(memories, last'.sourceId) # {}
            /\ LegacyMemoryId(last'.sourceId) \notin DOMAIN memories
           THEN /\ last'.skipped
                /\ last'.outcome = "ok"
                /\ runs' = runs
                /\ calls'[p].pc = "idle"
         ELSE /\ ~last'.skipped
              /\ last'.outcome = "pending"
              /\ Len(runs') = Len(runs) + 1
              /\ runs'[Len(runs')].status = "running"
              /\ runs'[Len(runs')].sourceId = last'.sourceId
              /\ runs'[Len(runs')].sourceVersion = last'.version
              /\ calls'[p].pc = "extracting"]_vars

\* the ExtractionRun rows of a source
RunsOf(sourceId) == {i \in DOMAIN runs : runs[i].sourceId = sourceId}

\* every source that has been given one content only, and none of whose
\* runs failed, has one ExtractionRun at most
AtMostOneRun ==
  \A s \in DOMAIN sources :
    (/\ Cardinality(SourceVersions(versions, s)) <= 1
     /\ \A i \in RunsOf(s) : runs[i].status # "failed")
      => Cardinality(RunsOf(s)) <= 1

\* one ingest call at most is in flight
OneAtATime == Cardinality({p \in Procs : calls[p].pc # "idle"}) <= 1

\* C24 as claimed (no redundant Extractor call): for a fixed source and
\* markdown, across ingest calls that all succeed, one ExtractionRun at most
\* is opened, whether the calls follow one another or overlap.
C24_NoRedundantExtraction == AtMostOneRun

\* C24 amended: the same for ingest calls that run one after another.
C24_NoRedundantExtractionInTurn == []OneAtATime => []AtMostOneRun

C24_Witness ==
  /\ last.op = "ingestBegin"
  /\ last.skipped
  /\ last.outcome = "ok"
  /\ OneAtATime
  /\ Cardinality(SourceVersions(versions, last.sourceId)) = 1
  /\ Cardinality(RunsOf(last.sourceId)) = 1
  /\ \A i \in RunsOf(last.sourceId) : runs[i].status = "success"
\* C25 (referential integrity): every CategoryAssignment row, every Evidence
\* row and every related link references existing Memory rows, after every
\* operation, the ones that threw part-way included.
C25_ReferentialIntegrity ==
  /\ \A c \in categories : c.memoryId \in DOMAIN memories
  /\ \A e \in DOMAIN evidence : e.memoryId \in DOMAIN memories
  /\ \A r \in related : r.memoryId \in DOMAIN memories /\ r.relatedMemoryId \in DOMAIN memories

\* applyOrganizerDecisions was called for MAnna after a re-extraction had
\* pruned it, and threw
C25_Witness ==
  /\ last.op = "organizer"
  /\ last.outcome = "thrown"
  /\ last.error = ErrForeignKey
  /\ runs[1].status = "success"
  /\ MAnna \notin DOMAIN memories
  /\ memories # <<>>
KeptRows == {m \in DOMAIN memories \cap DOMAIN memories' : isExtractedAtomicMemory(memories[m])}

C28_ExtractorCategory ==
  \A m \in DOMAIN memories :
    isExtractedAtomicMemory(memories[m]) =>
      LET rows == {c \in CategoriesOf(categories, "extractor_agent") : c.memoryId = m}
      IN /\ Cardinality(rows) = 1
         /\ \A c \in rows : c.categoryId = categoryIdForBucket(memories[m].extractedKind)
\* the memoryIds of the rows that belong to another source than sourceId
OtherIds(mems, sourceId) == {m \in DOMAIN mems : mems[m].sourceId # sourceId}

\* C29 (frame of applyExtractedMemories): a step of applyExtractedMemories
\* or of ingest for a source leaves as they were the Memory rows of every
\* other source and the Evidence and CategoryAssignment rows of those
\* memories, and creates no such row.
C29_OtherSourcesUntouched ==
  [][LET others == OtherIds(memories, last'.sourceId)
     IN /\ OtherIds(memories', last'.sourceId) = others
        /\ \A m \in others : memories'[m] = memories[m]
        /\ {c \in categories' : c.memoryId \in others} = {c \in categories : c.memoryId \in others}
        /\ \A m \in others : EvidenceOf(evidence', m) = EvidenceOf(evidence, m)]_vars

\* memories were applied for the external document while a.txt held
\* memories of its own
C29_Witness ==
  /\ IsApplyStep(last)
  /\ last.error = ""
  /\ last.sourceId = "ext:doc 1"
  /\ ExtractedIds(memories, "sha256(a.txt)") # {}
  /\ ExtractedIds(memories, "ext:doc 1") # {}
  /\ \E i \in DOMAIN runs : runs[i].sourceId = "ext:doc 1" /\ runs[i].status = "success"
\* C30 (alias upsert): the alias table holds one row per aliasSourceId, and
\* after a call of applyConsolidatorAliasProposals the row of every alias
\* source for which the call stored a proposal has the canonicalSourceId,
\* reason, confidence and isActive of the last such proposal, isActive being
\* defaultIsActive when the proposal leaves it unset, whatever the row held.
C30_AliasLastWins ==
  [][\A in \in AliasInputs :
       ApplyConsolidator(in[1], in[2]) =>
         LET stored(i) ==
               /\ Resolvable(memories, in[1][i])
               /\ \A j \in 1..i :
                    Resolvable(memories, in[1][j]) =>
                      ~AliasForeignKeyFails(sources, CanonicalOf(memories, in[1][j]))
         IN \A i \in DOMAIN in[1] :
              (/\ stored(i)
               /\ \A j \in DOMAIN in[1] :
                    (j > i /\ stored(j)) =>
                      AliasOf(memories, in[1][j]) # AliasOf(memories, in[1][i]))
              => LET a == AliasOf(memories, in[1][i])
                 IN /\ a \in DOMAIN aliases'
                    /\ aliases'[a].aliasSourceId = a
                    /\ aliases'[a].canonicalSourceId = CanonicalOf(memories, in[1][i])
                    /\ aliases'[a].reason = AliasReason("consolidator_agent", in[1][i].reason)
                    /\ aliases'[a].confidence = in[1][i].confidence
                    /\ aliases'[a].isActive =
                         IF in[1][i].isActive = "undefined" THEN in[2]
                         ELSE in[1][i].isActive = "true"]_vars

\* the alias row of b.txt pointed at the external document, inactive, and a
\* later call has pointed it at a.txt
C30_Witness ==
  /\ last.op = "consolidator"
  /\ last.outcome = "ok"
  /\ last.appliedAliasCount = 2
  /\ "sha256(b.txt)" \in DOMAIN aliases
  /\ aliases["sha256(b.txt)"].canonicalSourceId = "sha256(a.txt)"
  /\ aliases["sha256(b.txt)"].isActive
  /\ aliases["sha256(b.txt)"].reason = <<"consolidator_agent">>
====
